---------------------------- MODULE Spec2Model ----------------------------
(***************************************************************************)
(* A model of autoprofit: the run orchestrator (pipeline.run_pipeline),    *)
(* the record store it writes (database.py) and the pure helpers it calls  *)
(* (utils.slugify, offers.choose_offer, generator.generate_post), and the  *)
(* HTTP handlers of web.py that write to the same store.                   *)
(*                                                                         *)
(* Text is modelled as a sequence of atoms.  An atom is either a word (a   *)
(* maximal run of [a-zA-Z0-9], written as one string) or a single          *)
(* separator character (" ", "-", "_", "#").  Two adjacent words in a      *)
(* sequence read as their concatenation.                                   *)
(***************************************************************************)
EXTENDS Integers, Sequences, FiniteSets, TLC

(***************************************************************************)
(* Bounds of the model.                                                    *)
(***************************************************************************)
\* the number of callers of run_pipeline (a "run" command of cli.py, a request
\* to the cron endpoint of web.py); each calls it once
MaxCallers == 2
\* the clock advances at most this many ticks; one tick is one UTC day
MaxNow == 1
\* redirects are followed at most this many times
MaxClicks == 1
\* at most this many webhook events are recorded
MaxEvents == 3
\* the catalogs given to choose_offer have at most this many offers
MaxOffers == 3
\* the strings given to slugify have at most this many atoms
MaxLen == 3

Procs == 1..MaxCallers

(***************************************************************************)
(* Text helpers.                                                           *)
(***************************************************************************)
Words ==
    {"crm", "CRM", "best", "shop", "post", "20260101", "20260102", "20260103",
     "20260101000000", "20260102000000", "20260103000000"}
Whitespace == {" ", "\t"}

\* str.lower() on one atom
LowerAtom(a) ==
    IF a = "CRM" THEN "crm"
    ELSE IF a = "A@x.io" THEN "a@x.io"
    ELSE a

\* str.lower() on a text
Lower(text) == [i \in 1..Len(text) |-> LowerAtom(text[i])]

RECURSIVE Filter(_, _)
Filter(text, keep) ==
    IF text = <<>> THEN <<>>
    ELSE IF Head(text) \in keep THEN <<Head(text)>> \o Filter(Tail(text), keep)
    ELSE Filter(Tail(text), keep)

RECURSIVE LStrip(_)
LStrip(text) ==
    IF text # <<>> /\ Head(text) \in Whitespace THEN LStrip(Tail(text)) ELSE text

RECURSIVE RStrip(_)
RStrip(text) ==
    IF text # <<>> /\ text[Len(text)] \in Whitespace
    THEN RStrip(SubSeq(text, 1, Len(text) - 1))
    ELSE text

\* str.strip()
Strip(text) == RStrip(LStrip(text))

\* re.sub(r"[\s_-]+", "-", text): every maximal run of separators becomes one "-"
RECURSIVE CollapseSeparators(_)
CollapseSeparators(text) ==
    IF text = <<>> THEN <<>>
    ELSE IF Head(text) \in Whitespace \cup {"_", "-"}
         THEN LET rest == CollapseSeparators(Tail(text))
              IN  IF rest # <<>> /\ Head(rest) = "-" THEN rest ELSE <<"-">> \o rest
         ELSE <<Head(text)>> \o CollapseSeparators(Tail(text))

\* utc_now().strftime('%Y%m%d') and ('%Y%m%d%H%M%S') at clock value t
DateStr(t) == <<"20260101", "20260102", "20260103">>[t + 1]
StampStr(t) == <<"20260101000000", "20260102000000", "20260103000000">>[t + 1]

\* re.sub(r"-+", "-", text)
RECURSIVE CollapseHyphens(_)
CollapseHyphens(text) ==
    IF Len(text) < 2 THEN text
    ELSE IF text[1] = "-" /\ text[2] = "-" THEN CollapseHyphens(Tail(text))
    ELSE <<Head(text)>> \o CollapseHyphens(Tail(text))

\* a variant of slugify without the timestamp fallback
slugify_NoFallback(value, t) ==
    CollapseHyphens(CollapseSeparators(
        Lower(Strip(Filter(value, Words \cup Whitespace \cup {"-"})))))

\* utils.slugify, evaluated at clock value t
slugify(value, t) ==
    LET cleaned1 == Lower(Strip(Filter(value, Words \cup Whitespace \cup {"-"})))
        cleaned2 == CollapseSeparators(cleaned1)
        cleaned3 == CollapseHyphens(cleaned2)
    IN  IF cleaned3 # <<>> THEN cleaned3 ELSE <<"post", "-", StampStr(t)>>

\* set(re.findall(r"[a-zA-Z0-9]+", keyword.lower()))
Tokens(keyword) == {LowerAtom(keyword[i]) : i \in {j \in 1..Len(keyword) : keyword[j] \in Words}}

\* len(text.split()) for a text whose words are separated by separators
RECURSIVE SplitCount(_)
SplitCount(text) ==
    IF text = <<>> THEN 0
    ELSE IF Head(text) \in Whitespace THEN SplitCount(Tail(text))
    ELSE IF Len(text) > 1 /\ text[2] \notin Whitespace THEN SplitCount(Tail(text))
    ELSE 1 + SplitCount(Tail(text))


\* Python's seq[:n]
PySlice(seq, n) ==
    IF n >= 0 THEN SubSeq(seq, 1, IF n < Len(seq) THEN n ELSE Len(seq))
    ELSE SubSeq(seq, 1, IF Len(seq) + n > 0 THEN Len(seq) + n ELSE 0)

(***************************************************************************)
(* Keyword source (sources.py).  Scores are in 1/10000.                    *)
(***************************************************************************)
BUYER_INTENT_TERMS ==
    << <<"best", 120>>, <<"buy", 120>>, <<"deal", 115>>, <<"price", 110>>,
       <<"review", 105>>, <<"vs", 105>>, <<"top", 100>> >>

RECURSIVE IntentProduct(_, _, _)
IntentProduct(tokens, i, score) ==
    IF i > Len(BUYER_INTENT_TERMS) THEN score
    ELSE IntentProduct(tokens, i + 1,
            IF BUYER_INTENT_TERMS[i][1] \in tokens
            THEN (score * BUYER_INTENT_TERMS[i][2]) \div 100 ELSE score)

_intent_score(keyword) ==
    LET tokens == Tokens(keyword)
        bonus  == Cardinality(tokens) * 400
    IN  IntentProduct(tokens, 1, 10000) + (IF bonus < 5000 THEN bonus ELSE 5000)

TrendItem(keyword, source_url) ==
    [title |-> keyword, keyword |-> keyword, source_url |-> source_url,
     score |-> _intent_score(keyword)]

\* what one call of fetch_trends may return: a list of items whose titles are
\* normalised (no "#", stripped, nonempty), or a raise (ok = FALSE)
FeedResults ==
    { [ok |-> TRUE, items |-> <<>>],
      [ok |-> FALSE, items |-> <<>>],
      [ok |-> TRUE, items |-> <<TrendItem(<<"crm">>, "feed"),
                                TrendItem(<<"best", " ", "shop">>, "feed")>>] }

\* sources.fetch_trends: each entry is appended before the length is compared
\* with `limit`, so the first entry is returned whatever the limit
fetch_trends(feed, limit) == PySlice(feed.items, IF limit < 1 THEN 1 ELSE limit)

\* the contents of config/fallback_keywords.yaml: a keyword list (empty when the
\* file is missing), or a file that does not load (ok = FALSE)
FallbackFiles ==
    { [ok |-> TRUE, keywords |-> <<>>],
      [ok |-> FALSE, keywords |-> <<>>],
      [ok |-> TRUE, keywords |-> << <<"CRM">>, <<"best", " ", "shop", "#">> >>] }

load_fallback_trends(file, limit) ==
    LET keywords == PySlice(file.keywords, limit)
    IN  [i \in 1..Len(keywords) |-> TrendItem(keywords[i], "local-fallback")]

\* pipeline.run_pipeline lines 62-66: append the fallback items whose
\* lower-cased keyword is not known yet
RECURSIVE MergeFallback(_, _, _)
MergeFallback(trends, known_keywords, fallback_trends) ==
    IF fallback_trends = <<>> THEN trends
    ELSE LET item == Head(fallback_trends)
         IN  IF Lower(item.keyword) \notin known_keywords
             THEN MergeFallback(Append(trends, item),
                                known_keywords \cup {Lower(item.keyword)},
                                Tail(fallback_trends))
             ELSE MergeFallback(trends, known_keywords, Tail(fallback_trends))

\* lines 62-66: the fetched list with the fallback items appended to it
MergedTrends(fetched, fallback_trends) ==
    MergeFallback(fetched, {Lower(fetched[i].keyword) : i \in 1..Len(fetched)},
                  fallback_trends)

\* a variant of the sort that puts an item before the items of its score
RECURSIVE InsertByScore_TiesReversed(_, _)
InsertByScore_TiesReversed(sorted, item) ==
    IF sorted = <<>> THEN <<item>>
    ELSE IF Head(sorted).score > item.score
         THEN <<Head(sorted)>> \o InsertByScore_TiesReversed(Tail(sorted), item)
         ELSE <<item>> \o sorted

\* sorted(trends, key=score, reverse=True): stable, highest score first
RECURSIVE InsertByScore(_, _)
InsertByScore(sorted, item) ==
    IF sorted = <<>> THEN <<item>>
    ELSE IF Head(sorted).score >= item.score
         THEN <<Head(sorted)>> \o InsertByScore(Tail(sorted), item)
         ELSE <<item>> \o sorted

RECURSIVE SortedByScore(_)
SortedByScore(trends) ==
    IF trends = <<>> THEN <<>>
    ELSE InsertByScore(SortedByScore(SubSeq(trends, 1, Len(trends) - 1)),
                       trends[Len(trends)])

(***************************************************************************)
(* Offer catalog (offers.py).                                              *)
(***************************************************************************)
\* a URL: everything but the query as one string, and the query as the list of
\* its decoded (key, value) pairs, the value being a text
Param(key, value) == [key |-> key, value |-> value]
Url(path, query) == [path |-> path, query |-> query]

\* https://crm.example/?ref={affiliate_tag} and https://shop.example/partner
OfferCrm ==
    [name |-> <<"CrmPro">>, categories |-> {"crm", "sales"}, commission_rate |-> 30,
     affiliate_url |-> Url("https://crm.example/", <<Param("ref", <<"{affiliate_tag}">>)>>),
     fallback_url |-> Url("https://crm.example/", <<>>)]
OfferShop ==
    [name |-> <<"Shop", " ", "Plus">>, categories |-> {"shop", "ecommerce"},
     commission_rate |-> 20,
     affiliate_url |-> Url("https://shop.example/partner", <<>>),
     fallback_url |-> Url("https://shop.example/", <<>>)]

\* the contents of config/offers.yaml: an offer list, or a file that does not load
OfferFiles ==
    { [ok |-> TRUE, offers |-> <<OfferCrm, OfferShop>>],
      [ok |-> FALSE, offers |-> <<>>] }

Overlap(keyword, offer) == Cardinality(Tokens(keyword) \cap offer.categories)

\* score(offer) of choose_offer: (category_overlap, commission_rate), compared
\* as Python compares tuples
ScoreGreater(keyword, a, b) ==
    \/ Overlap(keyword, a) > Overlap(keyword, b)
    \/ /\ Overlap(keyword, a) = Overlap(keyword, b)
       /\ a.commission_rate > b.commission_rate

\* a variant of max() that keeps the last of several maximal offers
RECURSIVE MaxByScore_Last(_, _, _)
MaxByScore_Last(keyword, best, rest) ==
    IF rest = <<>> THEN best
    ELSE IF ~ScoreGreater(keyword, best, Head(rest))
         THEN MaxByScore_Last(keyword, Head(rest), Tail(rest))
         ELSE MaxByScore_Last(keyword, best, Tail(rest))

\* max(offers, key=score): the offers are scanned in order and the one held
\* is replaced only by an offer of strictly greater score
RECURSIVE MaxByScore(_, _, _)
MaxByScore(keyword, best, rest) ==
    IF rest = <<>> THEN best
    ELSE IF ScoreGreater(keyword, Head(rest), best)
         THEN MaxByScore(keyword, Head(rest), Tail(rest))
         ELSE MaxByScore(keyword, best, Tail(rest))

BestOffer(keyword, offers) == MaxByScore(keyword, Head(offers), Tail(offers))

\* offers.choose_offer raises ValueError in exactly these cases
ChooseOfferRaises(keyword, offers, min_overlap) ==
    \/ offers = <<>>
    \/ Overlap(keyword, BestOffer(keyword, offers)) < min_overlap

choose_offer(keyword, offers, min_overlap) == BestOffer(keyword, offers)

\* "{affiliate_tag}" in base
HasPlaceholder(url) ==
    \E i \in 1..Len(url.query) : url.query[i].value = <<"{affiliate_tag}">>

\* base.format(affiliate_tag=affiliate_tag)
Format(url, affiliate_tag) ==
    Url(url.path,
        [i \in 1..Len(url.query) |->
            IF url.query[i].value = <<"{affiliate_tag}">>
            THEN Param(url.query[i].key, <<affiliate_tag>>)
            ELSE url.query[i]])

\* dict(parse_qsl(query, keep_blank_values=True)): one entry per key, at the
\* place of the key's first pair and with the value of its last pair
RECURSIVE DictOf(_)
DictOf(pairs) ==
    IF pairs = <<>> THEN <<>>
    ELSE LET last == pairs[Len(pairs)]
             before == DictOf(SubSeq(pairs, 1, Len(pairs) - 1))
         IN  IF \E i \in 1..Len(before) : before[i].key = last.key
             THEN [i \in 1..Len(before) |->
                      IF before[i].key = last.key THEN last ELSE before[i]]
             ELSE Append(before, last)

\* params.update(pairs): the value of a key of the dict is replaced in place,
\* a new key is added at the end
UpdateDict(params, pairs) == DictOf(params \o pairs)

\* offers.build_offer_url
build_offer_url(offer, affiliate_tag, keyword, slug) ==
    LET base == IF HasPlaceholder(offer.affiliate_url) /\ affiliate_tag = ""
                THEN offer.fallback_url
                ELSE IF HasPlaceholder(offer.affiliate_url)
                THEN Format(offer.affiliate_url, affiliate_tag)
                ELSE offer.affiliate_url
        params == DictOf(base.query)
        new_query == UpdateDict(params, << Param("utm_source", <<"autoprofit">>),
                                          Param("utm_medium", <<"affiliate">>),
                                          Param("utm_campaign", slug),
                                          Param("utm_term", keyword) >>)
    IN  Url(base.path, new_query)

(***************************************************************************)
(* Content generator (generator.py, models.DraftPost.word_count).          *)
(***************************************************************************)
\* the words of the generated prose that do not depend on keyword or offer
FixedWordCount == 328

generate_post(trend, offer) ==
    LET keyword == Strip(trend.keyword)
        w == SplitCount(keyword)
        quoted == IF w = 0 THEN 1 ELSE w
    IN  [slug |-> <<>>,
         title |-> keyword \o <<":", " ", "Buying Guide + Best Option Right Now">>,
         keyword |-> keyword,
         \* title "<keyword>: Buying ...", summary "<keyword> is ...", one section
         \* body with '<keyword>' and one with the offer's name
         word_count |-> FixedWordCount + quoted + w + quoted + SplitCount(offer.name)]

(***************************************************************************)
(* State.                                                                  *)
(***************************************************************************)
VARIABLES
    settings,     \* the Settings object shared by every caller (settings.get_settings)
    config,       \* config/fallback_keywords.yaml and config/offers.yaml
    now,          \* utils.utc_now(), in ticks
    posts,        \* posts table, in id order
    runs,         \* runs table, in id order
    files,        \* <output_dir>/posts/<slug>.html: slug -> id of the run that wrote it
    index,        \* <output_dir>/index.html: the slugs it lists, <<"absent">> before
    frame,        \* the locals of run_pipeline, per caller
    invocations,  \* how many times run_pipeline has been called
    clicks,       \* the clicks table, oldest row first
    subscriptions, \* the subscriptions table, oldest row first
    response,     \* the last request to the web service and its response
    call          \* a call of a pure function: its arguments and its outcome

vars == <<settings, config, now, posts, runs, files, index, frame, invocations,
          clicks, subscriptions, response, call>>

\* the limit argument of run_pipeline: None (given = FALSE) or an integer
LimitArgs == { [given |-> FALSE, value |-> 0] }

NoTrend == [title |-> <<>>, keyword |-> <<>>, source_url |-> "", score |-> 0]
NoOffer == [name |-> <<>>, categories |-> {}, commission_rate |-> 0,
            affiliate_url |-> [path |-> "", query |-> <<>>],
            fallback_url |-> [path |-> "", query |-> <<>>]]
NoUrl == [path |-> "", query |-> <<>>]
NoDraft == [slug |-> <<>>, title |-> <<>>, keyword |-> <<>>, word_count |-> 0]

\* the per-candidate locals, as they are between two candidates
BetweenCandidates ==
    [trend |-> NoTrend, base_slug |-> <<>>, slug |-> <<>>, offer |-> NoOffer,
     offer_url |-> NoUrl, draft |-> NoDraft, html_path |-> <<>>]

\* an HTTP exchange: the endpoint and its argument, the status code, the
\* Location header, and the "active" and "status" fields of a JSON body
NoResponse ==
    [endpoint |-> "", request |-> <<>>, status |-> 0, location |-> NoUrl,
     active |-> FALSE, sub_status |-> ""]

\* no pure function is under test
NoCall == [fn |-> ""]

IdleFrame ==
    [pc |-> "idle", limit |-> [given |-> FALSE, value |-> 0], dry_run |-> FALSE,
     run_id |-> 0, target_limit |-> 0, created |-> 0, skipped |-> 0, failed |-> 0,
     published_posts |-> <<>>, trends |-> <<>>, offers |-> <<>>,
     trend |-> NoTrend, base_slug |-> <<>>, slug |-> <<>>, offer |-> NoOffer,
     offer_url |-> NoUrl, draft |-> NoDraft, html_path |-> <<>>,
     exc |-> "", result |-> <<>>, raised |-> "",
     \* _fetch_trends_with_retry: the attempt under way
     attempt |-> 1,
     \* time.sleep(seconds) under way (pc = "sleep")
     seconds |-> 0,
     \* history: the merged list before the sort, the sorted candidate list, the
     \* candidates taken from it, the finish_run calls that completed, the
     \* number of posts at the call
     merged |-> <<>>,
     candidates |-> <<>>, considered |-> 0, finished |-> 0, posts_at_call |-> 0]

Init ==
    /\ settings \in [allow_refresh_existing : BOOLEAN,
                     quality_min_word_count : {260, 1000},
                     max_posts_per_run : {1, 3},
                     affiliate_tag : {""},
                     cron_token : {""},
                     stripe_configured : {TRUE}]
    /\ config \in [fallback_keywords : FallbackFiles, offers : OfferFiles]
    /\ now = 0
    /\ posts = <<>>
    /\ runs = <<>>
    /\ files = <<>>
    /\ index = <<"absent">>
    /\ frame = [r \in Procs |-> IdleFrame]
    /\ invocations = 0
    /\ clicks = <<>>
    /\ subscriptions = <<>>
    /\ response = NoResponse
    /\ call = NoCall

(***************************************************************************)
(* Store operations (database.py).                                         *)
(***************************************************************************)
\* a variant of the lookup that finds no slug
has_post_slug_Never(slug) == FALSE

has_post_slug(slug) == \E i \in 1..Len(posts) : posts[i].slug = slug

\* a variant of the posts table without the unique constraint on slug
InsertPostRaises_Never(slug) == FALSE

\* insert_post fails on a slug the unique constraint already holds
InsertPostRaises(slug) == has_post_slug(slug)

insert_post(row) == Append(posts, row)

start_run == Append(runs, [status |-> "running", summary_json |-> <<>>])

\* a variant of finish_run whose UPDATE has no WHERE clause
finish_run_EveryRow(run_id, status, summary) ==
    [i \in 1..Len(runs) |-> [status |-> status, summary_json |-> <<summary>>]]

finish_run(run_id, status, summary) ==
    [i \in 1..Len(runs) |->
        IF i = run_id THEN [status |-> status, summary_json |-> <<summary>>]
        ELSE runs[i]]

\* get_post_offer_url: the offer_url of the row with this slug, <<>> for None
get_post_offer_url(slug) ==
    IF has_post_slug(slug)
    THEN <<posts[CHOOSE i \in 1..Len(posts) : posts[i].slug = slug].offer_url>>
    ELSE <<>>

\* log_click: one more row in the clicks table
log_click(slug, destination_url) ==
    Append(clicks, [slug |-> slug, destination_url |-> destination_url,
                    created_at |-> now])

\* an Optional[str]
None == [some |-> FALSE, text |-> <<>>]
Some(text) == [some |-> TRUE, text |-> text]
\* Python's truth value of an Optional[str]
Truthy(value) == value.some /\ value.text # <<>>

\* utc_now().isoformat() at the time of an upsert: the clock has microsecond
\* resolution, so each upsert is stamped later than the rows already stored;
\* the value is the rank of the timestamp
UpdatedAtNow ==
    LET stamps == {subscriptions[i].updated_at : i \in 1..Len(subscriptions)}
    IN  IF stamps = {} THEN 1 ELSE 1 + CHOOSE t \in stamps : \A u \in stamps : u <= t

\* a variant of upsert_subscription that writes the incoming email always
upsert_subscription_Overwriting(subscription_id, customer_email, status, current_period_end, source_event, raw_payload) ==
    LET payload == [subscription_id |-> subscription_id,
                    customer_email |-> customer_email, status |-> status,
                    current_period_end |-> current_period_end,
                    source_event |-> source_event, raw_json |-> raw_payload,
                    updated_at |-> UpdatedAtNow]
    IN  IF \A i \in 1..Len(subscriptions) :
                subscriptions[i].subscription_id # subscription_id
        THEN Append(subscriptions, payload)
        ELSE [i \in 1..Len(subscriptions) |->
                IF subscriptions[i].subscription_id = subscription_id
                THEN payload ELSE subscriptions[i]]

\* upsert_subscription: insert the row of a new subscription_id, else update
\* the existing row, keeping its email when the incoming one is null or empty
upsert_subscription(subscription_id, customer_email, status, current_period_end, source_event, raw_payload) ==
    LET payload == [subscription_id |-> subscription_id,
                    customer_email |-> customer_email, status |-> status,
                    current_period_end |-> current_period_end,
                    source_event |-> source_event, raw_json |-> raw_payload,
                    updated_at |-> UpdatedAtNow]
        existing == {i \in 1..Len(subscriptions) :
                        subscriptions[i].subscription_id = subscription_id}
    IN  IF existing = {}
        THEN Append(subscriptions, payload)
        ELSE [i \in 1..Len(subscriptions) |->
                IF i \in existing
                THEN IF ~Truthy(customer_email)
                     THEN [payload EXCEPT !.customer_email =
                              subscriptions[CHOOSE j \in existing :
                                  \A k \in existing : j <= k].customer_email]
                     ELSE payload
                ELSE subscriptions[i]]

\* list_recent_posts: the slugs of the newest rows, newest first
RECURSIVE Reverse(_)
Reverse(seq) == IF seq = <<>> THEN <<>> ELSE Append(Reverse(Tail(seq)), Head(seq))

list_recent_posts(limit) ==
    LET newest == Reverse([i \in 1..Len(posts) |-> posts[i].slug])
    IN  SubSeq(newest, 1, IF Len(newest) < limit THEN Len(newest) ELSE limit)

\* publisher.render_post: the path of the document it writes
PostPath(slug) == <<"posts/">> \o slug \o <<".html">>

(***************************************************************************)
(* run_pipeline, cut at its accesses to the store and the output directory. *)
(***************************************************************************)
Update(r, changes) ==
    frame' = [frame EXCEPT ![r] =
                [f \in DOMAIN IdleFrame |->
                    IF f \in DOMAIN changes THEN changes[f] ELSE frame[r][f]]]

\* lines 44-56: set-up, initialize_db and start_run; an error here is raised
\* to the caller
SetUp(r, limit, dry_run, setup_error) ==
    /\ frame[r].pc = "idle"
    /\ \A q \in 1..(r - 1) : frame[q].pc # "idle"
    /\ invocations' = invocations + 1
    /\ \/ /\ setup_error # ""
          /\ frame' = [frame EXCEPT ![r] =
                [IdleFrame EXCEPT !.pc = "raised", !.raised = setup_error,
                                  !.limit = limit, !.dry_run = dry_run]]
          /\ UNCHANGED runs
       \/ /\ setup_error = ""
          /\ runs' = start_run
          /\ frame' = [frame EXCEPT ![r] =
                [IdleFrame EXCEPT !.pc = "fetch", !.limit = limit, !.dry_run = dry_run,
                    !.run_id = Len(runs'), !.posts_at_call = Len(posts),
                    !.target_limit = IF limit.given /\ limit.value # 0
                                     THEN limit.value
                                     ELSE settings.max_posts_per_run]]
    /\ UNCHANGED <<settings, config, now, posts, files, index, clicks, subscriptions, call>>

\* a call of run_pipeline by the CLI
Invoke(r, limit, dry_run, setup_error) ==
    /\ SetUp(r, limit, dry_run, setup_error)
    /\ UNCHANGED response

\* pipeline._fetch_trends_with_retry (lines 25-40), one attempt: a nonempty
\* result ends the stage, an empty one or a raise is followed by a sleep of
\* attempt * 2 seconds and the next attempt, the last attempt by []; then
\* lines 61-70
max_attempts == 3

\* lines 61-70, after the fetch stage returned `fetched`: merge the fallback
\* list, load the catalog, sort
MergeAndLoad(r, fetched) ==
    LET fallback_file == config.fallback_keywords
        offers_file == config.offers
        fallback_trends == load_fallback_trends(fallback_file, frame[r].target_limit * 3)
        trends == MergedTrends(fetched, fallback_trends)
    IN  IF ~fallback_file.ok
        THEN Update(r, [pc |-> "except", exc |-> "fallback_keywords.yaml", attempt |-> 1])
        ELSE IF ~offers_file.ok
        THEN Update(r, [pc |-> "except", exc |-> "offers.yaml", attempt |-> 1])
        ELSE Update(r, [pc |-> "loop", trends |-> SortedByScore(trends),
                        candidates |-> SortedByScore(trends), merged |-> trends,
                        offers |-> offers_file.offers, attempt |-> 1])

\* a variant that sleeps after the third attempt and makes a fourth
FetchAttempt_OneMore(r, outcome) ==
    /\ frame[r].pc = "fetch"
    /\ IF outcome.ok /\ outcome.items # <<>>
       THEN LET target_limit == frame[r].target_limit
                limit == IF target_limit * 3 > target_limit THEN target_limit * 3
                         ELSE target_limit
            IN  MergeAndLoad(r, fetch_trends(outcome, limit))
       ELSE IF frame[r].attempt < max_attempts + 1
       THEN Update(r, [pc |-> "sleep", seconds |-> frame[r].attempt * 2])
       ELSE MergeAndLoad(r, <<>>)
    /\ UNCHANGED <<settings, config, now, posts, runs, files, index, invocations,
                   clicks, subscriptions, response, call>>

\* lines 26-38 and 40: one call of fetch_trends
FetchAttempt(r, outcome) ==
    /\ frame[r].pc = "fetch"
    /\ IF outcome.ok /\ outcome.items # <<>>
       THEN LET target_limit == frame[r].target_limit
                limit == IF target_limit * 3 > target_limit THEN target_limit * 3
                         ELSE target_limit
            IN  MergeAndLoad(r, fetch_trends(outcome, limit))
       ELSE IF frame[r].attempt < max_attempts
       THEN Update(r, [pc |-> "sleep", seconds |-> frame[r].attempt * 2])
       ELSE MergeAndLoad(r, <<>>)
    /\ UNCHANGED <<settings, config, now, posts, runs, files, index, invocations, clicks, subscriptions, response, call>>

\* line 39: time.sleep(attempt * 2) returns and the next attempt begins
Sleep(r) ==
    /\ frame[r].pc = "sleep"
    /\ Update(r, [pc |-> "fetch", seconds |-> 0, attempt |-> frame[r].attempt + 1])
    /\ UNCHANGED <<settings, config, now, posts, runs, files, index, invocations, clicks, subscriptions, response, call>>

\* a variant that moves on without counting the candidate
CandidateSkipped_Uncounted(r) ==
    BetweenCandidates @@ [pc |-> "loop"]

\* lines 80-81 and 84-85: skipped += 1; continue
CandidateSkipped(r) ==
    BetweenCandidates @@ [pc |-> "loop", skipped |-> frame[r].skipped + 1]

\* lines 99-100 and 136-137: failed += 1, and on to the next candidate
CandidateFailed(r) ==
    BetweenCandidates @@ [pc |-> "loop", failed |-> frame[r].failed + 1]

\* lines 126-135: the summary entry and created += 1
CandidateCreated(r, entry) ==
    BetweenCandidates @@
        [pc |-> "loop", created |-> frame[r].created + 1,
         published_posts |-> Append(frame[r].published_posts, entry)]

\* an error that leaves the try block of lines 58-146 enters the handler of
\* line 147 with str(exc)
\* (the candidate list and the catalog are not read again)
RunLevelError(r, exc) ==
    BetweenCandidates @@ [pc |-> "except", exc |-> exc, trends |-> <<>>, offers |-> <<>>]

\* lines 70-85, first lookup: leave the loop, or take the next candidate and
\* look its base slug up
NextCandidate(r, store_error) ==
    /\ frame[r].pc = "loop"
    /\ IF frame[r].trends = <<>> \/ frame[r].created >= frame[r].target_limit
       THEN /\ ~store_error
            /\ Update(r, [pc |-> IF frame[r].dry_run THEN "finish" ELSE "index",
                          trends |-> <<>>, offers |-> <<>>])
       ELSE LET trend == Head(frame[r].trends)
                base_slug == slugify(trend.keyword, now)
                taken == [trends |-> Tail(frame[r].trends),
                          considered |-> frame[r].considered + 1]
            IN  IF store_error
                THEN Update(r, RunLevelError(r, "has_post_slug") @@ taken)
                ELSE IF ~has_post_slug(base_slug)
                THEN Update(r, taken @@ [pc |-> "generate", trend |-> trend,
                                         base_slug |-> base_slug, slug |-> base_slug])
                ELSE IF settings.allow_refresh_existing
                THEN Update(r, taken @@ [pc |-> "refresh", trend |-> trend,
                                         base_slug |-> base_slug, slug |-> base_slug])
                ELSE Update(r, taken @@ CandidateSkipped(r))
    /\ UNCHANGED <<settings, config, now, posts, runs, files, index, invocations, clicks, subscriptions, response, call>>

\* a variant that takes the date-suffixed slug without looking it up
RefreshCheck_Unchecked(r, store_error) ==
    /\ frame[r].pc = "refresh"
    /\ Update(r, [pc |-> "generate",
                  slug |-> frame[r].base_slug \o <<"-", DateStr(now)>>])
    /\ UNCHANGED <<settings, config, now, posts, runs, files, index, invocations,
                   clicks, subscriptions, response, call>>

\* lines 77-82: the lookup of the date-suffixed slug
RefreshCheck(r, store_error) ==
    /\ frame[r].pc = "refresh"
    /\ LET refreshed_slug == frame[r].base_slug \o <<"-", DateStr(now)>>
       IN  IF store_error
           THEN Update(r, RunLevelError(r, "has_post_slug"))
           ELSE IF has_post_slug(refreshed_slug)
           THEN Update(r, CandidateSkipped(r))
           ELSE Update(r, [pc |-> "generate", slug |-> refreshed_slug])
    /\ UNCHANGED <<settings, config, now, posts, runs, files, index, invocations, clicks, subscriptions, response, call>>

\* the summary entry of lines 126-134
PublishedPost(draft, offer, html_path) ==
    [slug |-> draft.slug, title |-> draft.title, offer_name |-> offer.name,
     html_path |-> html_path]

\* a variant that renders the document of every candidate, dry run or not
Generate_IgnoringDryRun(r, render_error) ==
    /\ frame[r].pc = "generate"
    /\ LET trend == frame[r].trend
           offers == frame[r].offers
           offer == choose_offer(trend.keyword, offers, 1)
           offer_url == build_offer_url(offer, settings.affiliate_tag,
                                        trend.keyword, frame[r].slug)
           draft == [generate_post(trend, offer) EXCEPT !.slug = frame[r].slug]
           failed == CandidateFailed(r)
       IN  IF ChooseOfferRaises(trend.keyword, offers, 1)
           THEN /\ ~render_error
                /\ Update(r, failed)
                /\ UNCHANGED files
           ELSE IF draft.word_count < settings.quality_min_word_count
           THEN /\ ~render_error
                /\ Update(r, failed)
                /\ UNCHANGED files
           ELSE IF render_error
           THEN /\ Update(r, failed)
                /\ UNCHANGED files
           ELSE /\ Update(r, [pc |-> "insert", offer |-> offer, offer_url |-> offer_url,
                              draft |-> draft, html_path |-> PostPath(draft.slug)])
                /\ files' = Append(SelectSeq(files, LAMBDA f : f.slug # draft.slug),
                                   [slug |-> draft.slug, run_id |-> frame[r].run_id])
    /\ UNCHANGED <<settings, config, now, posts, runs, index, invocations, clicks, subscriptions, response, call>>

\* a variant without the quality check of lines 98-100
Generate_Unchecked(r, render_error) ==
    /\ frame[r].pc = "generate"
    /\ LET trend == frame[r].trend
           offers == frame[r].offers
           offer == choose_offer(trend.keyword, offers, 1)
           offer_url == build_offer_url(offer, settings.affiliate_tag,
                                        trend.keyword, frame[r].slug)
           draft == [generate_post(trend, offer) EXCEPT !.slug = frame[r].slug]
           failed == CandidateFailed(r)
       IN  IF ChooseOfferRaises(trend.keyword, offers, 1)
           THEN /\ ~render_error
                /\ Update(r, failed)
                /\ UNCHANGED files
           ELSE IF frame[r].dry_run
           THEN /\ ~render_error
                /\ Update(r, CandidateCreated(r, PublishedPost(draft, offer, <<"dry-run">>)))
                /\ UNCHANGED files
           ELSE IF render_error
           THEN /\ Update(r, failed)
                /\ UNCHANGED files
           ELSE /\ Update(r, [pc |-> "insert", offer |-> offer, offer_url |-> offer_url,
                              draft |-> draft, html_path |-> PostPath(draft.slug)])
                /\ files' = Append(SelectSeq(files, LAMBDA f : f.slug # draft.slug),
                                   [slug |-> draft.slug, run_id |-> frame[r].run_id])
    /\ UNCHANGED <<settings, config, now, posts, runs, index, invocations, clicks, subscriptions, response, call>>

\* lines 87-112 and, in a dry run, 126-135: offer, URL, draft, quality check
\* and render_post
Generate(r, render_error) ==
    /\ frame[r].pc = "generate"
    /\ LET trend == frame[r].trend
           offers == frame[r].offers
           offer == choose_offer(trend.keyword, offers, 1)
           offer_url == build_offer_url(offer, settings.affiliate_tag,
                                        trend.keyword, frame[r].slug)
           draft == [generate_post(trend, offer) EXCEPT !.slug = frame[r].slug]
           failed == CandidateFailed(r)
       IN  IF ChooseOfferRaises(trend.keyword, offers, 1)
           THEN /\ ~render_error
                /\ Update(r, failed)
                /\ UNCHANGED files
           ELSE IF draft.word_count < settings.quality_min_word_count
           THEN /\ ~render_error
                /\ Update(r, failed)
                /\ UNCHANGED files
           ELSE IF frame[r].dry_run
           THEN /\ ~render_error
                /\ Update(r, CandidateCreated(r, PublishedPost(draft, offer, <<"dry-run">>)))
                /\ UNCHANGED files
           ELSE IF render_error
           THEN /\ Update(r, failed)
                /\ UNCHANGED files
           ELSE /\ Update(r, [pc |-> "insert", offer |-> offer, offer_url |-> offer_url,
                              draft |-> draft, html_path |-> PostPath(draft.slug)])
                /\ files' = Append(SelectSeq(files, LAMBDA f : f.slug # draft.slug),
                                   [slug |-> draft.slug, run_id |-> frame[r].run_id])
    /\ UNCHANGED <<settings, config, now, posts, runs, index, invocations, clicks, subscriptions, response, call>>

\* a variant in which an error of insert_post leaves the loop
InsertPost_Aborting(r, store_error) ==
    /\ frame[r].pc = "insert"
    /\ LET draft == frame[r].draft
           row == [slug |-> draft.slug, title |-> draft.title, keyword |-> draft.keyword,
                   source_url |-> frame[r].trend.source_url,
                   offer_name |-> frame[r].offer.name, offer_url |-> frame[r].offer_url,
                   html_path |-> frame[r].html_path, word_count |-> draft.word_count,
                   created_at |-> now]
       IN  IF store_error \/ InsertPostRaises(draft.slug)
           THEN /\ Update(r, RunLevelError(r, "insert_post"))
                /\ UNCHANGED posts
           ELSE /\ posts' = insert_post(row)
                /\ Update(r, CandidateCreated(r,
                        PublishedPost(draft, frame[r].offer, frame[r].html_path)))
    /\ UNCHANGED <<settings, config, now, runs, files, index, invocations,
                   clicks, subscriptions, response, call>>

\* lines 113-137: insert_post, the summary entry and the created counter;
\* any error of insert_post counts the candidate as failed
InsertPost(r, store_error) ==
    /\ frame[r].pc = "insert"
    /\ LET draft == frame[r].draft
           row == [slug |-> draft.slug, title |-> draft.title, keyword |-> draft.keyword,
                   source_url |-> frame[r].trend.source_url,
                   offer_name |-> frame[r].offer.name, offer_url |-> frame[r].offer_url,
                   html_path |-> frame[r].html_path, word_count |-> draft.word_count,
                   created_at |-> now]
       IN  IF store_error \/ InsertPostRaises(draft.slug)
           THEN /\ Update(r, CandidateFailed(r))
                /\ UNCHANGED posts
           ELSE /\ posts' = insert_post(row)
                /\ Update(r, CandidateCreated(r,
                        PublishedPost(draft, frame[r].offer, frame[r].html_path)))
    /\ UNCHANGED <<settings, config, now, runs, files, index, invocations, clicks, subscriptions, response, call>>

\* lines 139-141: list_recent_posts and render_index
RenderIndex(r, index_error) ==
    /\ frame[r].pc = "index"
    /\ IF index_error
       THEN /\ Update(r, RunLevelError(r, "render_index"))
            /\ UNCHANGED index
       ELSE /\ Update(r, [pc |-> "finish"])
            /\ index' = list_recent_posts(100)
    /\ UNCHANGED <<settings, config, now, posts, runs, files, invocations, clicks, subscriptions, response, call>>

\* the summary dict; error = "" stands for a dict without the key
Summary(created, skipped, failed, published_posts, error) ==
    [created |-> created, skipped |-> skipped, failed |-> failed,
     posts |-> published_posts, error |-> error]

\* line 143
RunResult(r) ==
    Summary(frame[r].created, frame[r].skipped, frame[r].failed,
            frame[r].published_posts, "")

\* a variant of the error summary that lists no post
ErrorResult_NoPosts(r) ==
    Summary(0, frame[r].skipped, frame[r].failed + 1, <<>>, frame[r].exc)

\* a variant of the error summary that leaves failed as it is
ErrorResult_SameFailed(r) ==
    Summary(frame[r].created, frame[r].skipped, frame[r].failed,
            frame[r].published_posts, frame[r].exc)

\* lines 148-154
ErrorResult(r) ==
    Summary(frame[r].created, frame[r].skipped, frame[r].failed + 1,
            frame[r].published_posts, frame[r].exc)

\* a variant that reports every finished run as a success
FinalStatus_AlwaysSuccess(failed) == "success"

\* line 144
FinalStatus(failed) == IF failed = 0 THEN "success" ELSE "partial"

\* lines 143-146: the normal finalization
FinishRun(r, store_error) ==
    /\ frame[r].pc = "finish"
    /\ LET result == RunResult(r)
           status == FinalStatus(frame[r].failed)
       IN  IF store_error
           THEN /\ Update(r, RunLevelError(r, "finish_run"))
                /\ UNCHANGED runs
           ELSE /\ runs' = finish_run(frame[r].run_id, status, result)
                /\ Update(r, [pc |-> "returned", result |-> <<result>>,
                              finished |-> frame[r].finished + 1])
    /\ UNCHANGED <<settings, config, now, posts, files, index, invocations, clicks, subscriptions, response, call>>

\* a variant of the handler that returns the summary although its finish_run
\* raised
HandleException_Swallowing(r, store_error) ==
    /\ frame[r].pc = "except"
    /\ LET result == ErrorResult(r)
       IN  /\ runs' = IF store_error THEN runs
                      ELSE finish_run(frame[r].run_id, "failed", result)
           /\ Update(r, [pc |-> "returned", result |-> <<result>>,
                         finished |-> frame[r].finished + 1])
    /\ UNCHANGED <<settings, config, now, posts, files, index, invocations, clicks, subscriptions, response, call>>

\* lines 147-156: the handler of an error that left the try block
HandleException(r, store_error) ==
    /\ frame[r].pc = "except"
    /\ LET result == ErrorResult(r)
       IN  IF store_error
           THEN /\ Update(r, [pc |-> "raised", raised |-> "finish_run"])
                /\ UNCHANGED runs
           ELSE /\ runs' = finish_run(frame[r].run_id, "failed", result)
                /\ Update(r, [pc |-> "returned", result |-> <<result>>,
                              finished |-> frame[r].finished + 1])
    /\ UNCHANGED <<settings, config, now, posts, files, index, invocations, clicks, subscriptions, response, call>>

\* time passes
Tick ==
    /\ now < MaxNow
    /\ now' = now + 1
    /\ UNCHANGED <<settings, config, posts, runs, files, index, frame, invocations, clicks, subscriptions, response, call>>

SetupErrors == {"", "initialize_db"}

(***************************************************************************)
(* The HTTP handlers of web.py that write to the store.                    *)
(***************************************************************************)
\* the slugs requested from GET /go/{slug}
RequestSlugs == { <<"crm">>, <<"best", "-", "shop">> }

\* a variant that redirects without logging the click
redirect_affiliate_Unlogged(slug) ==
    /\ Len(clicks) < MaxClicks
    /\ LET destination == get_post_offer_url(slug)
           exchange == [NoResponse EXCEPT !.endpoint = "/go/{slug}", !.request = slug]
       IN  IF destination = <<>>
           THEN response' = [exchange EXCEPT !.status = 404]
           ELSE response' = [exchange EXCEPT !.status = 307,
                                             !.location = destination[1]]
    /\ UNCHANGED <<settings, config, now, posts, runs, files, index, frame, invocations,
                   clicks, subscriptions, call>>

\* web.redirect_affiliate: 404 for a slug without a Post, else one Click row
\* and a 307 to the stored offer_url
redirect_affiliate(slug) ==
    /\ Len(clicks) < MaxClicks
    /\ LET destination == get_post_offer_url(slug)
           exchange == [NoResponse EXCEPT !.endpoint = "/go/{slug}", !.request = slug]
       IN  IF destination = <<>>
           THEN /\ UNCHANGED clicks
                /\ response' = [exchange EXCEPT !.status = 404]
           ELSE /\ clicks' = log_click(slug, destination[1])
                /\ response' = [exchange EXCEPT !.status = 307,
                                                !.location = destination[1]]
    /\ UNCHANGED <<settings, config, now, posts, runs, files, index, frame, invocations,
                   subscriptions, call>>

\* web._as_iso_timestamp on the values the events carry
_as_iso_timestamp(value) ==
    IF value = "1767225600" THEN "2026-01-01T00:00:00+00:00" ELSE "None"

\* str(email).strip().lower() if email else None
NormalizedEmail(email) ==
    IF Truthy(email) THEN Some(Lower(Strip(email.text))) ELSE None

\* the events posted to /api/stripe/webhook; signed = the signature verifies,
\* resolved_email = what web._resolve_customer_email finds for the object
CheckoutCompleted ==
    [type |-> "checkout.session.completed", signed |-> TRUE,
     subscription |-> "sub_1", id |-> "cs_1",
     customer_email |-> None, details_email |-> Some(<<" ", "A@x.io">>),
     resolved_email |-> None, status |-> "complete", current_period_end |-> "None"]
SubscriptionDeleted ==
    [type |-> "customer.subscription.deleted", signed |-> TRUE,
     subscription |-> "", id |-> "sub_1",
     customer_email |-> None, details_email |-> None,
     resolved_email |-> None, status |-> "canceled",
     current_period_end |-> "1767225600"]
WebhookEvents ==
    { CheckoutCompleted, SubscriptionDeleted,
      [CheckoutCompleted EXCEPT !.signed = FALSE],
      [CheckoutCompleted EXCEPT !.type = "invoice.paid"] }

\* the events Stripe posts in the billing specification: two subscriptions of
\* one customer, a change of email, a blank email, a session without a
\* subscription
BillingEvents ==
    WebhookEvents \cup
    { [CheckoutCompleted EXCEPT !.subscription = "sub_2",
                                !.customer_email = Some(<<"A@x.io">>)],
      [CheckoutCompleted EXCEPT !.details_email = Some(<<" ">>)],
      [CheckoutCompleted EXCEPT !.subscription = ""],
      [SubscriptionDeleted EXCEPT !.id = "sub_2"],
      [SubscriptionDeleted EXCEPT !.type = "customer.subscription.updated",
                                  !.resolved_email = Some(<<"b@x.io">>),
                                  !.status = "active",
                                  !.current_period_end = "None"] }

\* web._record_checkout_completion
_record_checkout_completion(event) ==
    IF event.subscription = ""
    THEN subscriptions
    ELSE LET customer_email == IF Truthy(event.customer_email)
                               THEN event.customer_email
                               ELSE event.details_email
         IN  upsert_subscription(event.subscription, NormalizedEmail(customer_email),
                                 "active", "None", event.type, event)

\* web._record_subscription_update
_record_subscription_update(event) ==
    IF event.id = ""
    THEN subscriptions
    ELSE upsert_subscription(event.id, NormalizedEmail(event.resolved_email),
                             IF event.status # "" THEN event.status ELSE "unknown",
                             _as_iso_timestamp(event.current_period_end), event.type,
                             event)

\* web._handle_stripe_event
_handle_stripe_event(event) ==
    IF event.type = "checkout.session.completed"
    THEN _record_checkout_completion(event)
    ELSE IF event.type \in {"customer.subscription.created",
                            "customer.subscription.updated",
                            "customer.subscription.deleted"}
    THEN _record_subscription_update(event)
    ELSE subscriptions

\* web.stripe_webhook: 503 when Stripe is not configured, 400 when the
\* signature does not verify, else the event is handled
stripe_webhook(event) ==
    /\ UpdatedAtNow <= MaxEvents
    /\ subscriptions' = IF settings.stripe_configured /\ event.signed
                        THEN _handle_stripe_event(event)
                        ELSE subscriptions
    /\ response' = [NoResponse EXCEPT !.endpoint = "/api/stripe/webhook",
                        !.status = IF ~settings.stripe_configured THEN 503
                                   ELSE IF ~event.signed THEN 400 ELSE 200]
    /\ UNCHANGED <<settings, config, now, posts, runs, files, index, frame, invocations,
                   clicks, call>>

\* database.get_subscription_by_email: the most recently updated row whose
\* customer_email is the email, if any
get_subscription_by_email(email) ==
    LET rows == {i \in 1..Len(subscriptions) :
                    subscriptions[i].customer_email = Some(email)}
    IN  IF rows = {} THEN <<>>
        ELSE <<subscriptions[CHOOSE i \in rows : \A j \in rows :
                    subscriptions[j].updated_at <= subscriptions[i].updated_at]>>

\* the emails asked about
RequestEmails == { <<"a@x.io">>, <<" ", "A@x.io">>, <<"b@x.io">> }

\* a variant that answers from the oldest row of the email
subscription_status_Oldest(email) ==
    /\ LET rows == {i \in 1..Len(subscriptions) :
                       subscriptions[i].customer_email = Some(Lower(Strip(email)))}
           status == subscriptions[CHOOSE i \in rows : \A j \in rows : i <= j].status
           exchange == [NoResponse EXCEPT !.endpoint = "/api/subscription/status",
                                          !.request = email, !.status = 200]
       IN  response' = IF rows = {}
                       THEN [exchange EXCEPT !.sub_status = "unknown"]
                       ELSE [exchange EXCEPT !.active = status \in {"active", "trialing"},
                                             !.sub_status = status]
    /\ UNCHANGED <<settings, config, now, posts, runs, files, index, frame, invocations,
                   clicks, subscriptions, call>>

\* web.subscription_status: the status of the most recently updated
\* subscription of the trimmed, lower-cased email, "unknown" without one
subscription_status(email) ==
    /\ LET row == get_subscription_by_email(Lower(Strip(email)))
           status == IF row[1].status # "" THEN row[1].status ELSE "unknown"
           exchange == [NoResponse EXCEPT !.endpoint = "/api/subscription/status",
                                          !.request = email, !.status = 200]
       IN  response' = IF row = <<>>
                       THEN [exchange EXCEPT !.sub_status = "unknown"]
                       ELSE [exchange EXCEPT !.active = status \in {"active", "trialing"},
                                             !.sub_status = status]
    /\ UNCHANGED <<settings, config, now, posts, runs, files, index, frame, invocations,
                   clicks, subscriptions, call>>

\* a caller is inside run_pipeline
Active(r) == frame[r].pc \notin {"idle", "returned", "raised"}

\* the steps of run_pipeline after a call of the feed
Process(r) ==
    \/ Sleep(r)
    \/ \E e \in BOOLEAN : NextCandidate(r, e)
    \/ \E e \in BOOLEAN : RefreshCheck(r, e)
    \/ \E e \in BOOLEAN : Generate(r, e)
    \/ \E e \in BOOLEAN : InsertPost(r, e)
    \/ \E e \in BOOLEAN : RenderIndex(r, e)
    \/ \E e \in BOOLEAN : FinishRun(r, e)
    \/ \E e \in BOOLEAN : HandleException(r, e)

Step(r) ==
    \/ \E outcome \in FeedResults : FetchAttempt(r, outcome)
    \/ Process(r)

\* the callers call run_pipeline one after the other (the "run" and "loop"
\* commands of cli.py, a cron schedule that does not overlap)
Next ==
    \/ \E r \in Procs, limit \in LimitArgs, dry_run \in BOOLEAN, e \in SetupErrors :
            /\ \A q \in Procs : ~Active(q)
            /\ Invoke(r, limit, dry_run, e)
    \/ \E r \in Procs : Step(r)
    \/ Tick

Spec == Init /\ [][Next]_vars

\* the callers may be inside run_pipeline at the same time (requests to the
\* cron endpoint of web.py); the fallback list is empty
InitConcurrent ==
    /\ Init
    /\ config.fallback_keywords.keywords = <<>>
    /\ settings.quality_min_word_count = 260

NextConcurrent ==
    \/ \E r \in Procs, limit \in LimitArgs, e \in SetupErrors : Invoke(r, limit, FALSE, e)
    \/ \E r \in Procs : Step(r)
    \/ Tick

SpecConcurrent == InitConcurrent /\ [][NextConcurrent]_vars

\* the service: callers of run_pipeline that may overlap, visitors following
\* /go/{slug} links and Stripe posting a completed checkout until it is
\* recorded, all on one store
InitService ==
    /\ settings \in [allow_refresh_existing : {TRUE},
                     quality_min_word_count : {260},
                     max_posts_per_run : {1},
                     affiliate_tag : {""},
                     cron_token : {""},
                     stripe_configured : {TRUE}]
    /\ config = [fallback_keywords |-> [ok |-> TRUE, keywords |-> <<>>],
                 offers |-> [ok |-> TRUE, offers |-> <<OfferCrm, OfferShop>>]]
    /\ now = 0
    /\ posts = <<>>
    /\ runs = <<>>
    /\ files = <<>>
    /\ index = <<"absent">>
    /\ frame = [r \in Procs |-> IdleFrame]
    /\ invocations = 0
    /\ clicks = <<>>
    /\ subscriptions = <<>>
    /\ response = NoResponse
    /\ call = NoCall

NextService ==
    \/ NextConcurrent
    \/ \E slug \in RequestSlugs : redirect_affiliate(slug)
    \/ subscriptions = <<>> /\ stripe_webhook(CheckoutCompleted)

SpecService == InitService /\ [][NextService]_vars

\* the "run" command of cli.py: --limit is absent or any integer, --dry-run
\* is a flag; one command runs at a time
CliLimits == LimitArgs \cup { [given |-> TRUE, value |-> v] : v \in {-1, 0, 1} }

InitCli ==
    /\ Init
    /\ settings.quality_min_word_count = 260
    /\ settings.allow_refresh_existing
    /\ config.offers = [ok |-> TRUE, offers |-> <<OfferCrm, OfferShop>>]
    /\ config.fallback_keywords = [ok |-> TRUE, keywords |-> <<>>]

NextCli ==
    \/ \E r \in Procs, limit \in CliLimits, dry_run \in BOOLEAN, e \in SetupErrors :
            /\ \A q \in Procs : ~Active(q)
            /\ Invoke(r, limit, dry_run, e)
    \/ \E r \in Procs : Step(r)
    \/ Tick

SpecCli == InitCli /\ [][NextCli]_vars

\* run_pipeline takes the Settings object of its caller: between two runs on
\* one store the environment may raise QUALITY_MIN_WORD_COUNT
RaisedThreshold == 1000

Reconfigure ==
    /\ \A q \in Procs : ~Active(q)
    /\ settings.quality_min_word_count < RaisedThreshold
    /\ settings' = [settings EXCEPT !.quality_min_word_count = RaisedThreshold]
    /\ UNCHANGED <<config, now, posts, runs, files, index, frame, invocations,
                   clicks, subscriptions, response, call>>

InitQuality ==
    /\ Init
    /\ settings.quality_min_word_count = 260
    /\ config.offers.ok
    /\ config.fallback_keywords.ok

NextQuality ==
    \/ Next
    \/ Reconfigure

SpecQuality == InitQuality /\ [][NextQuality]_vars

\* billing: Stripe posts events to /api/stripe/webhook one after the other,
\* and pages ask /api/subscription/status about an email
InitBilling ==
    /\ settings \in [allow_refresh_existing : {TRUE},
                     quality_min_word_count : {260},
                     max_posts_per_run : {1},
                     affiliate_tag : {""},
                     cron_token : {""},
                     stripe_configured : BOOLEAN]
    /\ config = [fallback_keywords |-> [ok |-> TRUE, keywords |-> <<>>],
                 offers |-> [ok |-> TRUE, offers |-> <<OfferCrm, OfferShop>>]]
    /\ now = 0
    /\ posts = <<>>
    /\ runs = <<>>
    /\ files = <<>>
    /\ index = <<"absent">>
    /\ frame = [r \in Procs |-> IdleFrame]
    /\ invocations = 0
    /\ clicks = <<>>
    /\ subscriptions = <<>>
    /\ response = NoResponse
    /\ call = NoCall

NextBilling ==
    \/ \E event \in BillingEvents : stripe_webhook(event)
    \/ \E email \in RequestEmails : subscription_status(email)

SpecBilling == InitBilling /\ [][NextBilling]_vars

\* the X-Cron-Token headers of requests to /api/cron/run; "" is a request
\* without the header
CronTokens == {"", "token-1", "token-2"}

\* a variant of the cron endpoint that does not look at the token
cron_run_Open(r, x_cron_token, setup_error) ==
    /\ SetUp(r, [given |-> FALSE, value |-> 0], FALSE, setup_error)
    /\ response' = [NoResponse EXCEPT !.endpoint = "/api/cron/run",
                                      !.request = <<x_cron_token>>]

\* web.cron_run: 401 when a token is configured and the header differs from
\* it, else run_pipeline(settings); the exchange is recorded with status 0
\* while the cycle runs
cron_run(r, x_cron_token, setup_error) ==
    IF settings.cron_token # "" /\ x_cron_token # settings.cron_token
    THEN /\ r = 1 /\ setup_error = ""   \* the request does not reach run_pipeline
         /\ response' = [NoResponse EXCEPT !.endpoint = "/api/cron/run",
                                           !.request = <<x_cron_token>>,
                                           !.status = 401]
         /\ UNCHANGED <<settings, config, now, posts, runs, files, index, frame,
                        invocations, clicks, subscriptions, call>>
    ELSE /\ SetUp(r, [given |-> FALSE, value |-> 0], FALSE, setup_error)
         /\ response' = [NoResponse EXCEPT !.endpoint = "/api/cron/run",
                                           !.request = <<x_cron_token>>]

\* the cron endpoint: requests with and without the token, which may overlap
InitCron ==
    /\ settings \in [allow_refresh_existing : {TRUE},
                     quality_min_word_count : {260},
                     max_posts_per_run : {1},
                     affiliate_tag : {""},
                     cron_token : {"", "token-1"},
                     stripe_configured : {TRUE}]
    /\ config = [fallback_keywords |-> [ok |-> TRUE, keywords |-> <<>>],
                 offers |-> [ok |-> TRUE, offers |-> <<OfferCrm, OfferShop>>]]
    /\ now = 0
    /\ posts = <<>>
    /\ runs = <<>>
    /\ files = <<>>
    /\ index = <<"absent">>
    /\ frame = [r \in Procs |-> IdleFrame]
    /\ invocations = 0
    /\ clicks = <<>>
    /\ subscriptions = <<>>
    /\ response = NoResponse
    /\ call = NoCall

NextCron ==
    \/ \E r \in Procs, x_cron_token \in CronTokens, e \in SetupErrors :
            cron_run(r, x_cron_token, e)
    \/ \E r \in Procs : Step(r)
    \/ Tick

SpecCron == InitCron /\ [][NextCron]_vars

(***************************************************************************)
(* The pure functions, called on their own.                                *)
(***************************************************************************)
\* the program at rest
AtRest ==
    /\ settings = [allow_refresh_existing |-> TRUE, quality_min_word_count |-> 260,
                   max_posts_per_run |-> 1, affiliate_tag |-> "", cron_token |-> "",
                   stripe_configured |-> TRUE]
    /\ config = [fallback_keywords |-> [ok |-> TRUE, keywords |-> <<>>],
                 offers |-> [ok |-> TRUE, offers |-> <<OfferCrm, OfferShop>>]]
    /\ now = 0
    /\ posts = <<>>
    /\ runs = <<>>
    /\ files = <<>>
    /\ index = <<"absent">>
    /\ frame = [r \in Procs |-> IdleFrame]
    /\ invocations = 0
    /\ clicks = <<>>
    /\ subscriptions = <<>>
    /\ response = NoResponse

\* the step of a call: the outcome is recorded
Return(outcome) ==
    /\ ~call.done
    /\ call' = outcome @@ [done |-> TRUE] @@ call
    /\ UNCHANGED <<settings, config, now, posts, runs, files, index, frame, invocations,
                   clicks, subscriptions, response>>

\* offers with the categories and the rate of another, and with both categories
OfferCrmTwin == [OfferCrm EXCEPT !.name = <<"CrmLite">>]
OfferSuite ==
    [OfferShop EXCEPT !.name = <<"Suite">>, !.categories = {"crm", "shop"}]

RECURSIVE SeqsUpTo(_, _)
SeqsUpTo(S, n) ==
    IF n = 0 THEN {<<>>}
    ELSE LET shorter == SeqsUpTo(S, n - 1)
         IN  shorter \cup {Append(q, x) : q \in shorter, x \in S}

\* the arguments of choose_offer
ChooseOfferCalls ==
    [fn : {"choose_offer"},
     keyword : {<<"crm">>, <<"best", " ", "shop">>, <<"CRM", " ", "shop">>, <<"#">>},
     offers : SeqsUpTo({OfferCrm, OfferShop, OfferCrmTwin, OfferSuite}, MaxOffers),
     min_overlap : 0..2,
     done : {FALSE}, raised : {FALSE}, result : {NoOffer}]

InitChooseOffer == AtRest /\ call \in ChooseOfferCalls

CallChooseOffer ==
    /\ call.fn = "choose_offer"
    /\ Return(IF ChooseOfferRaises(call.keyword, call.offers, call.min_overlap)
              THEN [raised |-> TRUE]
              ELSE [result |-> choose_offer(call.keyword, call.offers, call.min_overlap)])

SpecChooseOffer == InitChooseOffer /\ [][CallChooseOffer]_vars

\* the arguments of slugify: strings of words in either case, digits, blanks,
\* tabs, hyphens, underscores and a character outside all of these; the clock
\* at the call and at a second call on the result
SlugifyCalls ==
    [fn : {"slugify"},
     value : SeqsUpTo({"crm", "CRM", "20260101", " ", "\t", "-", "_", "#"}, MaxLen),
     t : 0..MaxNow, t_again : 0..MaxNow,
     done : {FALSE}, result : {<<>>}, again : {<<>>}]

InitSlugify == AtRest /\ call \in SlugifyCalls

CallSlugify ==
    /\ call.fn = "slugify"
    /\ Return([result |-> slugify(call.value, call.t),
               again |-> slugify(slugify(call.value, call.t), call.t_again)])

SpecSlugify == InitSlugify /\ [][CallSlugify]_vars

\* offers whose URLs have parameters already:
\* https://shop.example/p?size=1&utm_source=old&size=2, and the template
\* https://crm.example/?ref={affiliate_tag}&utm_term=old with the fallback
\* https://crm.example/?plan=pro
OfferSized ==
    [OfferShop EXCEPT !.affiliate_url =
        Url("https://shop.example/p", << Param("size", <<"1">>),
                                         Param("utm_source", <<"old">>),
                                         Param("size", <<"2">>) >>)]
OfferTagged ==
    [OfferCrm EXCEPT !.affiliate_url =
                        Url("https://crm.example/", << Param("ref", <<"{affiliate_tag}">>),
                                                       Param("utm_term", <<"old">>) >>),
                     !.fallback_url =
                        Url("https://crm.example/", << Param("plan", <<"pro">>) >>)]

\* the arguments of build_offer_url
BuildOfferUrlCalls ==
    [fn : {"build_offer_url"},
     offer : {OfferCrm, OfferShop, OfferSized, OfferTagged},
     affiliate_tag : {"", "demo-20"},
     keyword : {<<"crm">>, <<"best", " ", "shop", "#">>, <<>>},
     slug : {<<"crm">>, <<"best", "-", "shop">>, <<"crm", "-", "20260101">>},
     done : {FALSE}, result : {NoUrl}]

InitBuildOfferUrl == AtRest /\ call \in BuildOfferUrlCalls

CallBuildOfferUrl ==
    /\ call.fn = "build_offer_url"
    /\ Return([result |-> build_offer_url(call.offer, call.affiliate_tag,
                                          call.keyword, call.slug)])

SpecBuildOfferUrl == InitBuildOfferUrl /\ [][CallBuildOfferUrl]_vars

\* runs over candidates that tie: the feed lists "shop", "best shop" and "crm",
\* the fallback file "CRM", "post" and "best shop#"
TiedFeedResults ==
    { [ok |-> FALSE, items |-> <<>>],
      [ok |-> TRUE, items |-> <<TrendItem(<<"shop">>, "feed"),
                                TrendItem(<<"best", " ", "shop">>, "feed"),
                                TrendItem(<<"crm">>, "feed")>>] }

TiedFallbackFile ==
    [ok |-> TRUE, keywords |-> << <<"CRM">>, <<"post">>, <<"best", " ", "shop", "#">> >>]

InitOrder ==
    /\ settings \in [allow_refresh_existing : {TRUE},
                     quality_min_word_count : {260},
                     max_posts_per_run : {1},
                     affiliate_tag : {""},
                     cron_token : {""},
                     stripe_configured : {TRUE}]
    /\ config = [fallback_keywords |-> TiedFallbackFile,
                 offers |-> [ok |-> TRUE, offers |-> <<OfferCrm, OfferShop>>]]
    /\ now = 0
    /\ posts = <<>>
    /\ runs = <<>>
    /\ files = <<>>
    /\ index = <<"absent">>
    /\ frame = [r \in Procs |-> IdleFrame]
    /\ invocations = 0
    /\ clicks = <<>>
    /\ subscriptions = <<>>
    /\ response = NoResponse
    /\ call = NoCall

NextOrder ==
    \/ \E r \in Procs, limit \in LimitArgs, dry_run \in BOOLEAN, e \in SetupErrors :
            /\ \A q \in Procs : ~Active(q)
            /\ Invoke(r, limit, dry_run, e)
    \/ \E r \in Procs, outcome \in TiedFeedResults : FetchAttempt(r, outcome)
    \/ \E r \in Procs : Process(r)
    \/ Tick

SpecOrder == InitOrder /\ [][NextOrder]_vars

\* the merge of lines 62-66 on its own: the feed gives up to MaxLen entries
\* with normalised titles, some of them more than once or in another case,
\* and the fallback file lists up to MaxLen keywords
FeedTitles == {<<"crm">>, <<"CRM">>, <<"best", " ", "shop">>}
FallbackKeywords == {<<"crm">>, <<"CRM">>, <<"shop">>}

MergeCalls ==
    [fn : {"merge"},
     trends : SeqsUpTo({TrendItem(k, "feed") : k \in FeedTitles}, MaxLen),
     fallback_trends : SeqsUpTo({TrendItem(k, "local-fallback") : k \in FallbackKeywords}, MaxLen),
     done : {FALSE}, result : {<<>>}]

InitMerge == AtRest /\ call \in MergeCalls

CallMerge ==
    /\ call.fn = "merge"
    /\ Return([result |-> MergedTrends(call.trends, call.fallback_trends)])

SpecMerge == InitMerge /\ [][CallMerge]_vars

(***************************************************************************)
(* Properties.                                                             *)
(***************************************************************************)
Returned(r) == frame[r].pc = "returned"
Raised(r) == frame[r].pc = "raised"
Ended(r) == Returned(r) \/ Raised(r)
\* the summary a call returned
ReturnedSummary(r) == frame[r].result[1]
\* the caller is between two statements of a candidate's loop iteration
InCandidate(r) == frame[r].pc \in {"refresh", "generate", "insert"}
Counted(summary) == summary.created + summary.skipped + summary.failed
FinalStatuses == {"success", "partial", "failed"}
\* the Run record the call opened
HasRun(r) == frame[r].run_id \in 1..Len(runs)
RunRow(r) == runs[frame[r].run_id]

\* C1 as stated: in the summary any call returns, created + skipped + failed is
\* the number of candidates the loop considered.
C1_Original ==
    \A r \in Procs :
        Returned(r) => Counted(ReturnedSummary(r)) = frame[r].considered

\* C1 amended: while the loop runs, created + skipped + failed is the number of
\* candidates whose iteration has ended; a summary returned without an error
\* field carries exactly these counters, so its sum is the number of
\* candidates considered; a summary with an error field carries one failed
\* more, for the run-level error: its sum is the number considered plus one,
\* or the number considered when the error is the slug lookup of a candidate
\* (which is considered and counted only through that increment).
C1_Accounting ==
    \A r \in Procs :
        /\ ~Ended(r) =>
              frame[r].created + frame[r].skipped + frame[r].failed
                = frame[r].considered
                  - (IF InCandidate(r) \/ frame[r].exc = "has_post_slug" THEN 1 ELSE 0)
        /\ Returned(r) =>
              LET summary == ReturnedSummary(r)
              IN  /\ summary.created = Len(summary.posts)
                  /\ Counted(summary) = frame[r].considered
                        + (IF summary.error \in {"", "has_post_slug"} THEN 0 ELSE 1)

\* a call returned a summary without error in which all three counters moved
C1_Witness ==
    \E r \in Procs :
        /\ Returned(r)
        /\ ReturnedSummary(r).error = ""
        /\ ReturnedSummary(r).created > 0
        /\ ReturnedSummary(r).skipped > 0
        /\ ReturnedSummary(r).failed > 0

C2_RunRecord ==
    /\ Len(runs) = Cardinality({r \in Procs : frame[r].run_id # 0})
    /\ \A r, q \in Procs : r # q /\ HasRun(r) => frame[r].run_id # frame[q].run_id
    /\ \A r \in Procs :
        \* no fetching and no insertion without the record
        /\ frame[r].pc \notin {"idle", "raised"} => HasRun(r)
        /\ frame[r].considered > 0 \/ frame[r].created > 0 => HasRun(r)
        /\ HasRun(r) /\ ~Returned(r) =>
              /\ RunRow(r) = [status |-> "running", summary_json |-> <<>>]
              /\ frame[r].finished = 0
        /\ Returned(r) =>
              /\ RunRow(r).status \in FinalStatuses
              /\ frame[r].finished = 1

EscapedError(r) == frame[r].exc # ""

SetupOrFinalizeError(r) ==
    \/ frame[r].raised # ""
    \/ frame[r].exc = "finish_run"

C5_Original ==
    [][\A r \in Procs :
          (\/ InCandidate(r)
           \/ /\ frame[r].pc = "loop"
              /\ frame[r].trends # <<>>
              /\ frame[r].created < frame[r].target_limit)
          => frame'[r].pc # "except"]_vars

\* the run of r was a real run without refresh that returned a summary without
\* error, and q ran after it on the same candidate list
Rerun(r, q) ==
    /\ r < q
    /\ ~settings.allow_refresh_existing
    /\ ~frame[r].dry_run /\ ~frame[q].dry_run
    /\ Returned(r)
    /\ ReturnedSummary(r).error = ""
    /\ frame[q].pc \notin {"idle", "fetch"}
    /\ frame[q].candidates = frame[r].candidates

\* C6 as stated: the second of two runs in sequence on an identical candidate
\* set with refresh disabled has created = 0 and counts every candidate it
\* considers as skipped (stated here for two runs in which no candidate
\* failed and no error occurred).
C6_Original ==
    \A r, q \in Procs :
        /\ Rerun(r, q)
        /\ ReturnedSummary(r).failed = 0
        /\ Returned(q)
        /\ ReturnedSummary(q).error = ""
        /\ ReturnedSummary(q).failed = 0
        => /\ ReturnedSummary(q).created = 0
           /\ ReturnedSummary(q).skipped = frame[q].considered
           /\ ReturnedSummary(q).posts = <<>>

\* C6 amended: when the first run created or skipped every candidate of the
\* set (the limit did not stop it before the end of the list and no
\* candidate failed), the second run never gets past the slug lookup of a
\* candidate: it inserts no Post, and a summary it returns without error has
\* created = 0, failed = 0 and skipped = the number of candidates.
C6_Idempotent ==
    \A r, q \in Procs :
        /\ Rerun(r, q)
        /\ ReturnedSummary(r).created + ReturnedSummary(r).skipped
              = Len(frame[r].candidates)
        => /\ ~InCandidate(q)
           /\ frame[q].created = 0
           /\ frame[q].failed = 0
           /\ frame[q].published_posts = <<>>
           /\ Active(q) => Len(posts) = frame[q].posts_at_call
           /\ Returned(q) /\ ReturnedSummary(q).error = "" =>
                 /\ ReturnedSummary(q).created = 0
                 /\ ReturnedSummary(q).failed = 0
                 /\ ReturnedSummary(q).skipped = Len(frame[q].candidates)
                 /\ ReturnedSummary(q).posts = <<>>

\* the first run created two Posts for its three candidates (two of them have
\* the same slug), the second run skipped all three
C6_Witness ==
    \E r, q \in Procs :
        /\ Rerun(r, q)
        /\ ReturnedSummary(r).created = 2
        /\ ReturnedSummary(r).skipped = 1
        /\ Returned(q)
        /\ ReturnedSummary(q).skipped = 3

\* the slug a keyword has without a date suffix
BaseSlug(keyword) == slugify(keyword, 0)
\* the Posts of the keywords with this base slug
PostsOfBase(base) == {i \in 1..Len(posts) : BaseSlug(posts[i].keyword) = base}
\* the date-suffixed slug of a base slug on day d
VariantSlug(base, d) == base \o <<"-", DateStr(d)>>

\* the state part of C7
C7_OneVariantPerDay ==
    /\ \A i \in 1..Len(posts) :
          LET base == BaseSlug(posts[i].keyword)
          IN  /\ posts[i].slug \in {base} \cup {VariantSlug(base, d) : d \in 0..now}
              /\ posts[i].slug # base => settings.allow_refresh_existing
              /\ Cardinality(PostsOfBase(base)) <= 1 + (now + 1)
    /\ \A i, j \in 1..Len(posts) : i # j => posts[i].slug # posts[j].slug
    /\ \A r \in Procs : frame[r].pc = "refresh" => has_post_slug(frame[r].base_slug)

\* C7: every Post of a keyword has the base slug or the base slug suffixed with
\* the date of a day that has begun, and slugs are unique: besides the base
\* Post there is at most one variant per day, at most one while the day of
\* the first run lasts.  A candidate whose base slug and variant of the day
\* both exist is counted as skipped, and nothing is rendered or inserted for it.
C7_Refresh ==
    /\ []C7_OneVariantPerDay
    /\ [][\A r \in Procs :
            /\ frame[r].pc = "refresh"
            /\ has_post_slug(VariantSlug(frame[r].base_slug, now))
            /\ frame'[r] # frame[r]
            /\ frame'[r].pc # "except"
            => /\ frame'[r].pc = "loop"
               /\ frame'[r].skipped = frame[r].skipped + 1
               /\ frame'[r].created = frame[r].created
               /\ frame'[r].failed = frame[r].failed
               /\ posts' = posts
               /\ files' = files]_vars

\* a keyword has its base Post and the variant of the day, and a run that
\* found both has skipped it
C7_Witness ==
    \E r \in Procs :
        /\ settings.allow_refresh_existing
        /\ now = 0
        /\ Returned(r)
        /\ ReturnedSummary(r).skipped > 0
        /\ ReturnedSummary(r).created > 0
        /\ \E i \in 1..Len(posts) :
              /\ Cardinality(PostsOfBase(BaseSlug(posts[i].keyword))) = 2
              /\ posts[i].slug = VariantSlug(BaseSlug(posts[i].keyword), 0)

\* the state part of C8
C8_UniqueSlugs ==
    /\ \A i, j \in 1..Len(posts) : i # j => posts[i].slug # posts[j].slug
    \* a caller about to render or insert holds a slug its lookup found absent
    /\ \A r \in Procs :
          frame[r].pc = "insert" => frame[r].draft.slug = frame[r].slug

\* C8: no two Posts share a slug; the posts table only grows, by one row at a
\* time, added by a run at its insert_post call, and no step of a run, no
\* redirect and no webhook event changes or removes a row; a run reaches
\* insert_post only through a slug lookup that found the slug absent.
C8_PostsStore ==
    /\ []C8_UniqueSlugs
    /\ [][\/ posts' = posts
          \/ /\ Len(posts') = Len(posts) + 1
             /\ SubSeq(posts', 1, Len(posts)) = posts
             /\ \E r \in Procs :
                   /\ frame[r].pc = "insert"
                   /\ posts'[Len(posts')].slug = frame[r].draft.slug
                   /\ ~has_post_slug(frame[r].draft.slug)]_vars
    /\ [][\A r \in Procs :
            /\ frame'[r].pc \in {"generate", "insert"} /\ frame'[r].pc # frame[r].pc
               => \/ /\ frame[r].pc \in {"loop", "refresh"}
                     /\ frame'[r].pc = "generate"
                     /\ ~has_post_slug(frame'[r].slug)
                  \/ /\ frame[r].pc = "generate"
                     /\ frame'[r].pc = "insert"
                     /\ frame'[r].slug = frame[r].slug]_vars

\* the store holds a base Post and its variant, a Click and a Subscription
C8_Witness ==
    /\ Len(posts) = 2
    /\ Len(clicks) = 1
    /\ Len(subscriptions) = 1
    /\ \E r, q \in Procs :
          r # q /\ frame[r].created = 1 /\ frame[q].created = 1

\* C9: when a caller has passed the lookup for a slug and another caller's
\* insert of that slug comes first, its own insert_post changes nothing in the
\* store (slugs stay unique), the candidate is counted as exactly one failed,
\* the remaining candidates are kept and the loop goes on, without a
\* run-level error; a summary such a run returns without error has the
\* Run in status partial.
C9_LostRace ==
    /\ [](\A i, j \in 1..Len(posts) : i # j => posts[i].slug # posts[j].slug)
    /\ [][\A r \in Procs :
            /\ frame[r].pc = "insert"
            /\ has_post_slug(frame[r].draft.slug)
            /\ frame'[r] # frame[r]
            => /\ posts' = posts
               /\ frame'[r].pc = "loop"
               /\ frame'[r].failed = frame[r].failed + 1
               /\ frame'[r].created = frame[r].created
               /\ frame'[r].skipped = frame[r].skipped
               /\ frame'[r].published_posts = frame[r].published_posts
               /\ frame'[r].trends = frame[r].trends
               /\ frame'[r].exc = ""]_vars
    /\ [](\A r \in Procs :
            Returned(r) /\ frame[r].failed > 0 /\ ~EscapedError(r)
            => /\ RunRow(r).status = "partial"
               /\ ReturnedSummary(r).failed = frame[r].failed)

\* the slugs of a summary's post list
ListedSlugs(r) ==
    {frame[r].published_posts[i].slug : i \in 1..Len(frame[r].published_posts)}

\* two overlapping calls rendered the same slug; the Post is the one of q; r,
\* which rendered last, counted one failure, went on to create another Post
\* and returned with a partial Run
C9_Witness ==
    \E r, q \in Procs :
        /\ r # q
        /\ Returned(r) /\ Returned(q)
        /\ RunRow(r).status = "partial"
        /\ ReturnedSummary(r).failed = 1
        /\ ReturnedSummary(r).created = 1
        /\ \E i \in 1..Len(files) :
              /\ files[i].run_id = frame[r].run_id
              /\ files[i].slug \in ListedSlugs(q)
              /\ files[i].slug \notin ListedSlugs(r)

\* C10: a call that returns from the normal finalization leaves its Run in
\* status success when its failed counter is 0 and partial otherwise, and the
\* summary stored on the Run is the summary it returns: the three counters
\* and the post list.
C10_NormalFinalization ==
    \A r \in Procs :
        Returned(r) /\ ~EscapedError(r) =>
            /\ RunRow(r).status = (IF frame[r].failed = 0 THEN "success" ELSE "partial")
            /\ RunRow(r).summary_json = frame[r].result
            /\ ReturnedSummary(r) =
                  [created |-> frame[r].created, skipped |-> frame[r].skipped,
                   failed |-> frame[r].failed, posts |-> frame[r].published_posts,
                   error |-> ""]

\* one call ended in success, another in partial
C10_Witness ==
    \E r, q \in Procs :
        /\ Returned(r) /\ ~EscapedError(r) /\ RunRow(r).status = "success"
        /\ ReturnedSummary(r).created > 0
        /\ Returned(q) /\ ~EscapedError(q) /\ RunRow(q).status = "partial"


(***************************************************************************)
(* C11: the limit of a run.                                                *)
(***************************************************************************)
\* the limit the run is said to have: the explicit argument when one was
\* passed, the configured max_posts_per_run otherwise
ExplicitOrConfigured(r) ==
    IF frame[r].limit.given THEN frame[r].limit.value ELSE settings.max_posts_per_run

\* C11 as stated: at every point of a run, target_limit is the explicit limit
\* argument when one was passed (whatever its value) and max_posts_per_run
\* otherwise, created never exceeds it, and no candidate is taken once
\* created has reached it
C11_Original ==
    /\ [](\A r \in Procs : HasRun(r) =>
            /\ frame[r].target_limit = ExplicitOrConfigured(r)
            /\ frame[r].created <= ExplicitOrConfigured(r))
    /\ [][\A r \in Procs :
            HasRun(r) /\ frame[r].created >= ExplicitOrConfigured(r)
                => frame'[r].considered = frame[r].considered]_vars


(***************************************************************************)
(* C12: dry runs.                                                          *)
(***************************************************************************)
\* the candidate of caller r passes matching and the quality check
PassesMatchingAndQuality(r) ==
    LET trend == frame[r].trend
        offers == frame[r].offers
    IN  /\ ~ChooseOfferRaises(trend.keyword, offers, 1)
        /\ generate_post(trend, choose_offer(trend.keyword, offers, 1)).word_count
                >= settings.quality_min_word_count

\* C12: no step of a dry run changes the post documents, the posts table or
\* the index; every candidate of a dry run that passes matching and the
\* quality check adds one to created and is reported in posts under its slug
\* with html_path "dry-run", and a dry run reports nothing else
C12_DryRun ==
    /\ [](\A r \in Procs : frame[r].dry_run =>
            /\ Len(frame[r].published_posts) = frame[r].created
            /\ \A i \in 1..Len(frame[r].published_posts) :
                    frame[r].published_posts[i].html_path = <<"dry-run">>)
    /\ [][\A r \in Procs : frame[r].dry_run /\ frame'[r] # frame[r] =>
            /\ posts' = posts
            /\ files' = files
            /\ index' = index]_vars
    /\ [][\A r \in Procs :
            /\ frame[r].dry_run /\ frame[r].pc = "generate" /\ frame'[r] # frame[r]
            /\ PassesMatchingAndQuality(r)
            => /\ frame'[r].created = frame[r].created + 1
               /\ frame'[r].published_posts # <<>>
               /\ LET entry == frame'[r].published_posts[Len(frame'[r].published_posts)]
                  IN  entry.slug = frame[r].slug /\ entry.html_path = <<"dry-run">>]_vars

\* a dry run that follows a publishing run returns having counted a candidate
\* as created, the posts table being as it was at the call
C12_Witness ==
    \E r \in Procs :
        /\ Returned(r) /\ frame[r].dry_run
        /\ frame[r].created >= 1
        /\ posts # <<>> /\ Len(posts) = frame[r].posts_at_call
        /\ \A i \in 1..Len(files) : files[i].run_id # frame[r].run_id


(***************************************************************************)
(* C13: a quality threshold no draft reaches.                              *)
(***************************************************************************)
\* the trends a run can have as candidates
PossibleTrends ==
    UNION { {feed.items[i] : i \in 1..Len(feed.items)} : feed \in FeedResults }
    \cup UNION { {TrendItem(file.keywords[i], "local-fallback") : i \in 1..Len(file.keywords)} :
                 file \in FallbackFiles }

\* quality_min_word_count exceeds the word count of every draft the
\* generator can produce
Unachievable ==
    \A trend \in PossibleTrends, file \in OfferFiles :
        \A j \in 1..Len(file.offers) :
            generate_post(trend, file.offers[j]).word_count
                < settings.quality_min_word_count

\* a step of caller r inside run_pipeline
StepOf(r) == frame[r].pc # "idle" /\ frame'[r] # frame[r]

\* C13 as stated: under such a threshold a run creates nothing, renders no
\* document, inserts no Post, and has counted every candidate it has taken
\* from the list as failed whenever it is between two candidates
C13_Original ==
    [][\A r \in Procs : Unachievable /\ StepOf(r) =>
            /\ frame'[r].created = 0
            /\ posts' = posts /\ files' = files
            /\ frame'[r].pc = "loop" => frame'[r].failed = frame'[r].considered]_vars

\* C13: under such a threshold a run creates nothing, renders no document
\* and inserts no Post; every candidate it takes from the list is counted as
\* failed or as skipped, skipped only when its slug is already in the posts
\* table, and a candidate that reaches the generator is counted as failed
C13_NothingPasses ==
    [][\A r \in Procs : Unachievable /\ StepOf(r) =>
            /\ frame'[r].created = 0
            /\ posts' = posts /\ files' = files
            /\ frame'[r].pc = "loop" =>
                    frame'[r].failed + frame'[r].skipped = frame'[r].considered
            /\ frame'[r].skipped > frame[r].skipped =>
                    \E c \in 1..Len(frame[r].candidates) :
                        has_post_slug(slugify(frame[r].candidates[c].keyword, now))
            /\ frame[r].pc = "generate" =>
                    frame'[r].pc = "loop" /\ frame'[r].failed = frame[r].failed + 1]_vars

\* under such a threshold a run on a store that has a post has returned with
\* one candidate skipped and one failed
C13_Witness ==
    /\ Unachievable
    /\ \E r \in Procs :
            /\ Returned(r) /\ ~frame[r].dry_run
            /\ frame[r].posts_at_call = 1 /\ Len(posts) = 1
            /\ frame[r].considered = 2
            /\ ReturnedSummary(r).created = 0
            /\ ReturnedSummary(r).skipped = 1
            /\ ReturnedSummary(r).failed = 1


(***************************************************************************)
(* C14: the subscriptions table.                                           *)
(***************************************************************************)
\* the row of a subscription_id in a subscriptions table
RowOf(table, id) ==
    table[CHOOSE i \in 1..Len(table) : table[i].subscription_id = id]

HasRow(table, id) == \E i \in 1..Len(table) : table[i].subscription_id = id

\* the fields of a row other than its email
OtherFields(row) ==
    [status |-> row.status, current_period_end |-> row.current_period_end,
     source_event |-> row.source_event, raw_json |-> row.raw_json,
     updated_at |-> row.updated_at]

\* C14: the table never has two rows of one subscription_id; an upsert on an
\* id that has a row leaves the stored email when the incoming email is null or
\* empty, and writes the incoming status, current_period_end, source_event
\* and raw_json and a new updated_at, a null current_period_end included
C14_MergePreserve ==
    /\ [](\A i, j \in 1..Len(subscriptions) :
            subscriptions[i].subscription_id = subscriptions[j].subscription_id => i = j)
    /\ [][\A id \in {"sub_1", "sub_2"} :
            LET old == RowOf(subscriptions, id)
                new == RowOf(subscriptions', id)
            IN  HasRow(subscriptions, id) /\ new # old =>
                  /\ Len(subscriptions') = Len(subscriptions)
                  /\ \E event \in BillingEvents :
                        /\ id \in {event.subscription, event.id}
                        /\ new.raw_json = event
                        /\ new.source_event = event.type
                        /\ new.updated_at > old.updated_at
                        /\ new.status = IF event.type = "checkout.session.completed"
                                        THEN "active" ELSE event.status
                        /\ new.current_period_end =
                              IF event.type = "checkout.session.completed" THEN "None"
                              ELSE _as_iso_timestamp(event.current_period_end)
                        /\ LET incoming ==
                                  IF event.type = "checkout.session.completed"
                                  THEN IF Truthy(event.customer_email)
                                       THEN event.customer_email ELSE event.details_email
                                  ELSE event.resolved_email
                           IN  new.customer_email =
                                  IF ~incoming.some \/ Strip(incoming.text) = <<>>
                                  THEN old.customer_email
                                  ELSE Some(Lower(Strip(incoming.text)))]_vars

\* a row whose email was b@x.io has been updated by an event with a blank
\* email and a null period end: the email is kept, the period end is null
C14_Witness ==
    /\ Len(subscriptions) = 1
    /\ subscriptions[1].subscription_id = "sub_1"
    /\ subscriptions[1].customer_email = Some(<<"b@x.io">>)
    /\ subscriptions[1].raw_json = [CheckoutCompleted EXCEPT !.details_email = Some(<<" ">>)]
    /\ subscriptions[1].current_period_end = "None"
    /\ subscriptions[1].updated_at = 3


(***************************************************************************)
(* C15: GET /go/{slug}.                                                    *)
(***************************************************************************)
\* a step that serves a request to /go/{slug}
RedirectStep ==
    /\ response'.endpoint = "/go/{slug}"
    /\ response' # response \/ clicks' # clicks

\* C15: a request for a slug that has a Post is answered 307 with the
\* Location header equal to the offer_url of that Post, and appends exactly
\* one Click row with the slug and that destination; a request for a slug
\* without a Post is answered 404 and leaves the clicks table as it is
C15_Redirect ==
    [][RedirectStep =>
        LET slug == response'.request
            stored == {i \in 1..Len(posts) : posts[i].slug = slug}
        IN  IF stored # {}
            THEN /\ response'.status = 307
                 /\ \A i \in stored : response'.location = posts[i].offer_url
                 /\ Len(clicks') = Len(clicks) + 1
                 /\ SubSeq(clicks', 1, Len(clicks)) = clicks
                 /\ clicks'[Len(clicks')].slug = slug
                 /\ \A i \in stored :
                        clicks'[Len(clicks')].destination_url = posts[i].offer_url
            ELSE /\ response'.status = 404
                 /\ clicks' = clicks]_vars

\* with two Posts in the store, a request for the slug of one of them has been
\* answered 307 with its offer_url and one Click row has been logged
C15_Witness ==
    /\ response.status = 307
    /\ response.request = <<"crm">>
    /\ Len(clicks) = 1
    /\ \E i \in 1..Len(posts) :
            posts[i].slug = <<"crm">> /\ response.location = posts[i].offer_url
    /\ \E i \in 1..Len(posts) : posts[i].slug = <<"best", "-", "shop">>


(***************************************************************************)
(* C16: the subscription status of an email.                               *)
(***************************************************************************)
\* the normalized emails the events carry
CustomerEmails == { <<"a@x.io">>, <<"b@x.io">> }

\* the most recently updated row of an email in a subscriptions table
LatestOf(table, email) ==
    LET rows == {i \in 1..Len(table) : table[i].customer_email = Some(email)}
    IN  IF rows = {} THEN <<>>
        ELSE <<table[CHOOSE i \in rows : \A j \in rows :
                        table[j].updated_at <= table[i].updated_at]>>

\* a status request for the email is answered active
ActiveFor(table, email) ==
    /\ LatestOf(table, email) # <<>>
    /\ LatestOf(table, email)[1].status = "active"

\* the email a checkout.session.completed event carries, normalized
CheckoutEmail(event) ==
    NormalizedEmail(IF Truthy(event.customer_email) THEN event.customer_email
                    ELSE event.details_email)

\* the most recently updated subscription of the email was last written by a
\* checkout.session.completed event carrying that email
CheckoutStands(table, email) ==
    /\ LatestOf(table, email) # <<>>
    /\ LatestOf(table, email)[1].source_event = "checkout.session.completed"
    /\ CheckoutEmail(LatestOf(table, email)[1].raw_json) = Some(email)

\* the step records an event that changes the status of the email's most
\* recently updated subscription
StatusChanged(email) ==
    LET old == LatestOf(subscriptions, email)[1]
    IN  \/ RowOf(subscriptions', old.subscription_id).status # old.status
        \/ /\ LatestOf(subscriptions', email) # <<>>
           /\ LatestOf(subscriptions', email)[1].status # old.status

\* the step records an event that gives the email's most recently updated
\* subscription another email
EmailMoved(email) ==
    LET old == LatestOf(subscriptions, email)[1]
    IN  RowOf(subscriptions', old.subscription_id).customer_email # Some(email)

\* the step answers a status request for the email
AnsweredAbout(email) ==
    /\ response'.endpoint = "/api/subscription/status"
    /\ response' # response
    /\ Lower(Strip(response'.request)) = email

AnsweredActive == response'.active /\ response'.sub_status = "active"

\* C16 as stated: once a checkout.session.completed event with a subscription
\* id and email e is recorded, a status request for e (trimmed, lower-cased)
\* is answered active = true, status = "active", and stays so answered over
\* every step that does not change the status of the most recently updated
\* subscription of e
C16_Original ==
    [][\A email \in CustomerEmails :
        /\ CheckoutStands(subscriptions', email) /\ AnsweredAbout(email) => AnsweredActive
        /\ CheckoutStands(subscriptions, email) /\ ~StatusChanged(email)
                => ActiveFor(subscriptions', email)]_vars

\* C16: once a checkout.session.completed event with a subscription id and
\* email e is recorded, a status request for e (trimmed, lower-cased) is
\* answered active = true, status = "active"; an email so answered stays so
\* answered over every step that neither changes the status of its most
\* recently updated subscription nor gives that subscription another email;
\* and every answer is the status of the most recently updated subscription
C16_Status ==
    [][\A email \in CustomerEmails :
        /\ CheckoutStands(subscriptions', email) => ActiveFor(subscriptions', email)
        /\ ActiveFor(subscriptions, email) /\ ~StatusChanged(email) /\ ~EmailMoved(email)
                => ActiveFor(subscriptions', email)
        /\ AnsweredAbout(email) =>
                (AnsweredActive <=> ActiveFor(subscriptions', email))]_vars

\* a request for " A@x.io" has been answered active from the subscription a
\* checkout has just recorded, the older subscription of the email being
\* canceled
C16_Witness ==
    /\ response.endpoint = "/api/subscription/status"
    /\ response.request = <<" ", "A@x.io">>
    /\ response.active /\ response.sub_status = "active"
    /\ Len(subscriptions) = 2
    /\ CheckoutStands(subscriptions, <<"a@x.io">>)
    /\ \E i \in 1..2 : /\ subscriptions[i].customer_email = Some(<<"a@x.io">>)
                        /\ subscriptions[i].status = "canceled"


(***************************************************************************)
(* C17: the token of the cron endpoint.                                    *)
(***************************************************************************)
\* the step serves a request to /api/cron/run
CronStep ==
    /\ response'.endpoint = "/api/cron/run"
    /\ response' # response \/ invocations' # invocations

\* C17: with a cron token configured, a request whose X-Cron-Token header is
\* missing or differs from it is answered 401 and changes neither the runs
\* nor the posts nor any caller of run_pipeline; a cycle starts and a Run
\* record is opened only by a request that carries the configured token
C17_TokenGate ==
    [][settings.cron_token # "" =>
        /\ CronStep /\ response'.request # <<settings.cron_token>> =>
                /\ response'.status = 401
                /\ UNCHANGED <<runs, posts, files, index, frame, invocations>>
        /\ invocations' # invocations \/ Len(runs') > Len(runs) =>
                /\ CronStep
                /\ response'.request = <<settings.cron_token>>
                /\ response'.status # 401]_vars

\* with a token configured, a request without the header has been answered
\* 401 after a request with the token ran a cycle that inserted a Post
C17_Witness ==
    /\ settings.cron_token = "token-1"
    /\ response.endpoint = "/api/cron/run"
    /\ response.request = <<"">>
    /\ response.status = 401
    /\ invocations = 1
    /\ Len(runs) = 1 /\ Len(posts) = 1


(***************************************************************************)
(* C18: choose_offer.                                                      *)
(***************************************************************************)
\* offer a does not come behind offer b in (overlap, commission_rate) order
ScoreAtLeast(keyword, a, b) ==
    \/ Overlap(keyword, a) > Overlap(keyword, b)
    \/ /\ Overlap(keyword, a) = Overlap(keyword, b)
       /\ a.commission_rate >= b.commission_rate

\* the positions of the offers of maximal (overlap, commission_rate)
Maximal(keyword, offers) ==
    {i \in 1..Len(offers) :
        \A j \in 1..Len(offers) : ScoreAtLeast(keyword, offers[i], offers[j])}

\* C18: choose_offer raises for an empty catalog; otherwise the offer it
\* selects is the first one in catalog order among those whose
\* (overlap, commission_rate) is maximal, it raises when the overlap of that
\* offer is below min_overlap, and returns that offer otherwise
C18_ChooseOffer ==
    call.fn = "choose_offer" /\ call.done =>
        IF call.offers = <<>> THEN call.raised
        ELSE LET first == CHOOSE i \in Maximal(call.keyword, call.offers) :
                            \A j \in Maximal(call.keyword, call.offers) : i <= j
                 selected == call.offers[first]
             IN  /\ Maximal(call.keyword, call.offers) # {}
                 /\ call.raised <=> Overlap(call.keyword, selected) < call.min_overlap
                 /\ ~call.raised => call.result = selected

\* of two offers with the same categories and rate, the one that comes first
\* in the catalog has been returned for "crm", ahead of an earlier offer
\* without overlap
C18_Witness ==
    /\ call.fn = "choose_offer" /\ call.done /\ ~call.raised
    /\ call.keyword = <<"crm">>
    /\ call.offers = <<OfferShop, OfferCrmTwin, OfferCrm>>
    /\ call.min_overlap = 1
    /\ call.result = OfferCrmTwin


(***************************************************************************)
(* C19: slugify.                                                           *)
(***************************************************************************)
\* the atoms made of characters of [a-z0-9] only
LowerAlnum == Words \ {"CRM"}

\* C19: slugify returns a nonempty string of characters of [a-z0-9-] only,
\* and slugify applied to that string, at any later time, returns it unchanged
C19_Slugify ==
    call.fn = "slugify" /\ call.done =>
        /\ call.result # <<>>
        /\ \A i \in 1..Len(call.result) : call.result[i] \in LowerAlnum \cup {"-"}
        /\ call.again = call.result

\* a string without a letter or digit has given the timestamp slug, and
\* slugify at a later time has returned that slug unchanged
C19_Witness ==
    /\ call.fn = "slugify" /\ call.done
    /\ call.value = <<"_", "#">>
    /\ call.t = 0 /\ call.t_again = 1
    /\ call.result = <<"post", "-", StampStr(0)>>
    /\ call.again = call.result


(***************************************************************************)
(* C20: build_offer_url.                                                   *)
(***************************************************************************)
\* the values a query has for a key
ValuesOf(query, key) == {query[i].value : i \in {j \in 1..Len(query) : query[j].key = key}}

TrackingKeys == {"utm_source", "utm_medium", "utm_campaign", "utm_term"}

\* the URL the tracking parameters are added to: the fallback URL when the
\* template has the placeholder and no tag is configured, the template with
\* the tag in the place of the placeholder otherwise
BaseOf(offer, affiliate_tag) ==
    IF HasPlaceholder(offer.affiliate_url) /\ affiliate_tag = ""
    THEN offer.fallback_url
    ELSE Format(offer.affiliate_url, affiliate_tag)

\* C20 as stated: the result has the path of the base; its query has for
\* utm_source, utm_medium, utm_campaign and utm_term the values "autoprofit",
\* "affiliate", the slug and the keyword and no other; and every parameter of
\* the base under another key is a parameter of the result
C20_Original ==
    call.fn = "build_offer_url" /\ call.done =>
        LET base == BaseOf(call.offer, call.affiliate_tag)
            query == call.result.query
        IN  /\ call.result.path = base.path
            /\ ValuesOf(query, "utm_source") = {<<"autoprofit">>}
            /\ ValuesOf(query, "utm_medium") = {<<"affiliate">>}
            /\ ValuesOf(query, "utm_campaign") = {call.slug}
            /\ ValuesOf(query, "utm_term") = {call.keyword}
            /\ \A i \in 1..Len(base.query) :
                    base.query[i].key \notin TrackingKeys =>
                        \E j \in 1..Len(query) : query[j] = base.query[i]


(***************************************************************************)
(* C21: the fetch stage.                                                   *)
(***************************************************************************)
\* the call of fetch_trends returned a nonempty list
NonEmpty(outcome) == outcome.ok /\ outcome.items # <<>>

\* the fetch stage of r is over and run_pipeline goes on inside its try block:
\* to the loop, or to the handler when a configuration file does not load
StageOver(r) ==
    \/ frame'[r].pc = "loop"
    \/ /\ frame'[r].pc = "except"
       /\ frame'[r].exc \in {"fallback_keywords.yaml", "offers.yaml"}
       /\ ~(config.fallback_keywords.ok /\ config.offers.ok)

\* the candidates of r that the feed gave
Fetched(candidates) == SelectSeq(candidates, LAMBDA item : item.source_url = "feed")

\* C21: a caller in the fetch stage is in its first, second or third call of
\* the feed or asleep after the first or the second; a call that returns a
\* nonempty list ends the stage without a sleep, and its items are
\* candidates; an empty list or an exception in call 1 or 2 is followed by a
\* sleep of 2 or 4 seconds and then by the next call; in call 3 it ends the
\* stage without a sleep and the run goes on with no fetched candidate
C21_FetchRetry ==
    /\ [](\A r \in Procs :
            /\ frame[r].pc = "fetch" =>
                    frame[r].attempt \in 1..3 /\ frame[r].seconds = 0
            /\ frame[r].pc = "sleep" =>
                    frame[r].attempt \in 1..2 /\ frame[r].seconds = frame[r].attempt * 2)
    /\ [][\A r \in Procs :
            /\ \A outcome \in FeedResults : FetchAttempt(r, outcome) =>
                    IF NonEmpty(outcome)
                    THEN /\ StageOver(r)
                         /\ frame'[r].pc = "loop" => Fetched(frame'[r].candidates) # <<>>
                    ELSE IF frame[r].attempt < 3
                    THEN frame'[r].pc = "sleep"
                    ELSE /\ StageOver(r)
                         /\ frame'[r].pc = "loop" => Fetched(frame'[r].candidates) = <<>>
            /\ frame[r].pc = "sleep" /\ frame'[r] # frame[r] =>
                    /\ frame'[r].pc = "fetch"
                    /\ frame'[r].attempt = frame[r].attempt + 1]_vars

\* the third call of the feed failed after sleeps of 2 and 4 seconds, and the
\* run went on with the fallback candidates only
C21_Witness ==
    \E r \in Procs :
        /\ frame[r].pc = "loop"
        /\ frame[r].considered = 0
        /\ frame[r].candidates # <<>>
        /\ Fetched(frame[r].candidates) = <<>>


(***************************************************************************)
(* C22: the merge of the fetched and the fallback candidates.              *)
(***************************************************************************)
\* no two items of the list have keywords that are equal ignoring case
DistinctKeywords(trends) ==
    \A i, j \in 1..Len(trends) :
        i # j => Lower(trends[i].keyword) # Lower(trends[j].keyword)

\* where a fetched and a fallback item share a keyword, the merged list has
\* the fetched one and not the fallback one
FetchedKept(fetched, fallback_trends, merged) ==
    \A i \in 1..Len(fetched), j \in 1..Len(fallback_trends) :
        Lower(fetched[i].keyword) = Lower(fallback_trends[j].keyword) =>
            /\ \E k \in 1..Len(merged) : merged[k] = fetched[i]
            /\ \A k \in 1..Len(merged) :
                    Lower(merged[k].keyword) = Lower(fetched[i].keyword) =>
                        merged[k].source_url = "feed"

\* C22 as stated: the merged list has no two keywords that are equal ignoring
\* case, and of a fetched and a fallback candidate with the same keyword the
\* fetched one is kept
C22_Original ==
    call.fn = "merge" /\ call.done =>
        /\ DistinctKeywords(call.result)
        /\ FetchedKept(call.trends, call.fallback_trends, call.result)


(***************************************************************************)
(* C23: the order in which the candidates are processed.                   *)
(***************************************************************************)
Count(seq, x) == Cardinality({i \in 1..Len(seq) : seq[i] = x})
FirstIndex(seq, x) == CHOOSE i \in 1..Len(seq) : seq[i] = x /\ \A j \in 1..(i - 1) : seq[j] # x

\* sorted has the items of merged, the higher score first and equal scores in
\* the order of merged
InScoreOrder(merged, sorted) ==
    /\ Len(sorted) = Len(merged)
    /\ \A k \in 1..Len(merged) : Count(sorted, merged[k]) = Count(merged, merged[k])
    /\ \A i, j \in 1..Len(sorted) :
            i < j =>
                \/ sorted[i].score > sorted[j].score
                \/ /\ sorted[i].score = sorted[j].score
                   /\ FirstIndex(merged, sorted[i]) <= FirstIndex(merged, sorted[j])
                   /\ ~(sorted[i].source_url = "local-fallback" /\ sorted[j].source_url = "feed")

\* C23: the candidates of a run are its merged list in non-increasing score
\* order with equal scores in merge order, fetched before fallback; the run
\* takes them one by one from the front of this list; so at any time, and when
\* the loop stops at target_limit, no candidate not yet taken has a higher
\* score than a candidate taken
C23_ScoreOrder ==
    /\ [](\A r \in Procs :
            /\ InScoreOrder(frame[r].merged, frame[r].candidates)
            /\ frame[r].considered <= Len(frame[r].candidates)
            /\ frame[r].pc \in {"refresh", "generate", "insert"} =>
                    /\ frame[r].considered >= 1
                    /\ frame[r].trend = frame[r].candidates[frame[r].considered]
            /\ \A i \in 1..frame[r].considered :
                    \A j \in (frame[r].considered + 1)..Len(frame[r].candidates) :
                        frame[r].candidates[j].score <= frame[r].candidates[i].score)
    /\ [][\A r \in Procs :
            /\ frame'[r].considered \in {frame[r].considered, frame[r].considered + 1}
            /\ frame[r].pc = "loop" /\ frame[r].created >= frame[r].target_limit =>
                    frame'[r].considered = frame[r].considered
            /\ frame[r].pc \notin {"idle", "fetch", "sleep"} =>
                    frame'[r].candidates = frame[r].candidates]_vars

\* a run stopped at target_limit after its third candidate of five: the
\* first two have one score, from the feed and from the fallback file, and
\* the third and the fourth, both from the feed, have one score
C23_Witness ==
    \E r \in Procs :
        /\ frame[r].pc = "returned"
        /\ frame[r].created = frame[r].target_limit
        /\ frame[r].considered = 3
        /\ Len(frame[r].candidates) = 5
        /\ frame[r].candidates[1].score = frame[r].candidates[2].score
        /\ frame[r].candidates[1].source_url = "feed"
        /\ frame[r].candidates[2].source_url = "local-fallback"
        /\ frame[r].candidates[3].score = frame[r].candidates[4].score
        /\ frame[r].candidates[3].keyword = <<"shop">>
        /\ frame[r].candidates[4].keyword = <<"crm">>


(***************************************************************************)
(* C24: the posts list of one run.                                         *)
(***************************************************************************)
\* C24 as stated: at any point of a run, dry or not, the entries of its posts
\* list have pairwise distinct slugs and their number is created
C24_Original ==
    \A r \in Procs :
        LET published_posts == frame[r].published_posts
        IN  /\ Len(published_posts) = frame[r].created
            /\ \A i, j \in 1..Len(published_posts) :
                    i # j => published_posts[i].slug # published_posts[j].slug


(***************************************************************************)
(* C25: the rendered post documents.                                       *)
(***************************************************************************)
\* the run with this id inserted the Post with this slug: the slug is in the
\* posts table and in the posts list of the run
InsertedBy(run_id, slug) ==
    /\ has_post_slug(slug)
    /\ \E r \in Procs :
            /\ frame[r].pc # "idle"
            /\ frame[r].run_id = run_id
            /\ \E k \in 1..Len(frame[r].published_posts) :
                    frame[r].published_posts[k].slug = slug

\* C25 as stated: when no run is under way, every document posts/<slug>.html
\* is the document of a Post with this slug that the run that wrote the
\* document inserted
C25_Original ==
    (\A q \in Procs : ~Active(q)) =>
        \A i \in 1..Len(files) : InsertedBy(files[i].run_id, files[i].slug)


(***************************************************************************)
(* C26: the posts of a run that ends on the run-level failure path.        *)
(***************************************************************************)
\* the rows that the run of r added to the posts table, when the runs do not
\* overlap: the rows after the first posts_at_call, up to the row that was the
\* last when the run returned
InsertedRows(r, created) ==
    SubSeq(posts, frame[r].posts_at_call + 1, frame[r].posts_at_call + created)

\* a real run returned the summary of the failure path
FailedRun(r) ==
    /\ Returned(r)
    /\ ReturnedSummary(r).error # ""
    /\ ~frame[r].dry_run

\* C26: after a real run returned the summary of the run-level failure path,
\* the posts table holds the rows the run inserted, one for each entry of the
\* summary's posts list and in its order, and created is their number; the
\* run inserted no other row; and no step removes or changes a row of the
\* posts table
C26_NoRollback ==
    /\ [](\A r \in Procs :
            FailedRun(r) =>
                LET summary == ReturnedSummary(r)
                    rows == InsertedRows(r, summary.created)
                IN  /\ summary.created = Len(summary.posts)
                    /\ Len(posts) >= frame[r].posts_at_call + summary.created
                    /\ \A k \in 1..Len(summary.posts) :
                            /\ rows[k].slug = summary.posts[k].slug
                            /\ rows[k].title = summary.posts[k].title
                            /\ rows[k].html_path = summary.posts[k].html_path)
    /\ [][/\ Len(posts') >= Len(posts)
           /\ SubSeq(posts', 1, Len(posts)) = posts
           /\ \A r \in Procs :
                ~FailedRun(r) /\ FailedRun(r)' =>
                    Len(posts') = frame'[r].posts_at_call + ReturnedSummary(r)'.created]_vars

\* a real run inserted a post, its index regeneration failed, and it
\* returned the failed summary with created = 1 and this post
C26_Witness ==
    \E r \in Procs :
        /\ FailedRun(r)
        /\ ReturnedSummary(r).error = "render_index"
        /\ ReturnedSummary(r).created = 1
        /\ Len(ReturnedSummary(r).posts) = 1
        /\ has_post_slug(ReturnedSummary(r).posts[1].slug)

=============================================================================
